---------------------------- MODULE Spec2Model ----------------------------
(***************************************************************************)
(* MonetIQ savings goals engine (src/MonetIQ/goals/savings_goals.py).      *)
(*                                                                         *)
(* The engine object is the state: engine.state (the raw application       *)
(* state), engine.goals (the typed goals), the four signal caches, the     *)
(* wall clock the methods read, and the value the last call returned.      *)
(* Every method is an operator computing what its code computes and an     *)
(* action applying it to the engine.                                       *)
(*                                                                         *)
(* Numbers.  Python floats are modelled as exact rationals <<n, d>> in     *)
(* lowest terms (d > 0); round(x, k) is rounding half to even of the exact *)
(* value.  Dates are day numbers of a calendar whose months all have       *)
(* DaysPerMonth days, so that year * 12 + month is day \div DaysPerMonth.  *)
(* An exception is a "fault" field of the returned record.                 *)
(***************************************************************************)
EXTENDS Integers, Sequences, FiniteSets, TLC

VARIABLES
    store,              \* the persisted application state (utils/storage.py)
    state,              \* engine.state
    goals,              \* engine.goals, in insertion order
    income_data,        \* engine.income_data
    expense_data,       \* engine.expense_data
    overspending_data,  \* engine.overspending_data
    stress_data,        \* engine.stress_data
    now,                \* the wall clock, in days
    result,             \* what the last call returned (or raised)
    reports             \* the last two reports the caller received

vars == <<store, state, goals, income_data, expense_data, overspending_data,
          stress_data, now, result, reports>>


-----------------------------------------------------------------------------
(* Exact rational arithmetic standing for Python's float arithmetic.       *)

Abs(x) == IF x < 0 THEN -x ELSE x

RECURSIVE GCD(_, _)
GCD(a, b) == IF b = 0 THEN a ELSE GCD(b, a % b)

Norm(n, d) ==
    LET g == GCD(Abs(n), Abs(d))
        s == IF d < 0 THEN -1 ELSE 1
    IN  <<(s * n) \div g, (s * d) \div g>>

R(i) == <<i, 1>>
RAdd(a, b) == Norm(a[1] * b[2] + b[1] * a[2], a[2] * b[2])
RSub(a, b) == Norm(a[1] * b[2] - b[1] * a[2], a[2] * b[2])
RMul(a, b) == Norm(a[1] * b[1], a[2] * b[2])
RDiv(a, b) == Norm(a[1] * b[2], a[2] * b[1])
RLt(a, b) == a[1] * b[2] < b[1] * a[2]
RLe(a, b) == a[1] * b[2] <= b[1] * a[2]
RGt(a, b) == RLt(b, a)
RGe(a, b) == RLe(b, a)
RMax(a, b) == IF RLt(a, b) THEN b ELSE a
RMin(a, b) == IF RLt(b, a) THEN b ELSE a
RZero(a) == a[1] = 0

(* round(x, k): to the nearest multiple of 1/scale, ties to the even one.  *)
RRound(a, scale) ==
    LET num == a[1] * scale
        fl  == num \div a[2]
        rem == num - fl * a[2]
        up  == \/ 2 * rem > a[2]
               \/ 2 * rem = a[2] /\ fl % 2 = 1
    IN  Norm(IF up THEN fl + 1 ELSE fl, scale)

Round2(a) == RRound(a, 100)
Round1(a) == RRound(a, 10)

(* int(x): truncation toward zero.                                         *)
RTrunc(a) == IF a[1] >= 0 THEN a[1] \div a[2] ELSE -((-a[1]) \div a[2])

(* timedelta.days: the floor of a duration in days.                        *)
RFloor(a) == a[1] \div a[2]

Max(a, b) == IF a < b THEN b ELSE a

-----------------------------------------------------------------------------
(* Dates.  A date string is absent (None), an ISO date, or unparseable.    *)

DaysPerMonth == 30

NoDate == [kind |-> "none", t |-> 0]
BadDate == [kind |-> "bad", t |-> 0]
Date(t) == [kind |-> "date", t |-> t]
MonthStart(m) == Date(m * DaysPerMonth)

(* year * 12 + month of a day number.                                      *)
MonthIndex(t) == t \div DaysPerMonth
YearOf(t) == MonthIndex(t) \div 12
MonthOf(t) == MonthIndex(t) % 12

(* Optional[int]: None or a value.                                         *)
None == [some |-> FALSE, v |-> 0]
Some(v) == [some |-> TRUE, v |-> v]


-----------------------------------------------------------------------------
(* Raw values of the application state: a number, an absent key, or a      *)
(* value float() rejects.                                                  *)

Num(v) == [k |-> "num", v |-> v]
Missing == [k |-> "missing", v |-> 0]
Unparseable == [k |-> "bad", v |-> 0]
MissingStr == "<missing>"

(* dict.get(key, default) on a raw value.                                  *)
GetOr(raw, default) == IF raw = MissingStr THEN default ELSE raw
GetDateOr(raw, default) == IF raw.kind = "none" THEN default ELSE raw

(* The state load_state installs: every section an empty dict, so every    *)
(* getter sees its defaults.                                               *)
NoOverspending ==
    [is_overspending |-> FALSE, overspending_amount |-> 0, severity |-> "low",
     affected_categories |-> <<>>]
NoStress == [is_stressed |-> FALSE, stress_score |-> 0]

EmptyState ==
    [income |-> 0, expenses |-> 0, savings_goals |-> <<>>,
     overspending |-> NoOverspending, stress_index |-> NoStress]

-----------------------------------------------------------------------------
(* DATA ACCESS LAYER                                                       *)

(* The state a loader reading the store would install.                    *)
stored_state == store

load_state == EmptyState

get_income(st) == [monthly_income |-> st.income]

get_expenses(st) == [monthly_total |-> st.expenses]

get_overspending_data(st) == st.overspending

get_stress_index(st) == st.stress_index

(* float(goal_info.get(key, 0))                                            *)
FloatOf(raw) == IF raw.k = "missing" THEN 0 ELSE raw.v
Parses(raw) == raw.k # "bad"

RecordParses(info) ==
    /\ Parses(info.target_amount)
    /\ Parses(info.current_amount)
    /\ Parses(info.monthly_contribution)

SavingsGoal(info, t) ==
    [goal_id              |-> info.goal_id,
     name                 |-> GetOr(info.name, "Unnamed Goal"),
     goal_type            |-> GetOr(info.type, "custom"),
     target_amount        |-> FloatOf(info.target_amount),
     current_amount       |-> FloatOf(info.current_amount),
     target_date          |-> info.target_date,
     priority             |-> GetOr(info.priority, "medium"),
     monthly_contribution |-> FloatOf(info.monthly_contribution),
     created_date         |-> GetDateOr(info.created_date, Date(t)),
     last_updated         |-> GetDateOr(info.last_updated, Date(t))]

(* The records converted before the first one float() rejects.             *)
RECURSIVE ConvertedPrefix(_, _)
ConvertedPrefix(infos, t) ==
    IF infos = <<>> \/ ~RecordParses(Head(infos)) THEN <<>>
    ELSE <<SavingsGoal(Head(infos), t)>> \o ConvertedPrefix(Tail(infos), t)

(* get_savings_goals: self.goals is filled record by record inside the     *)
(* try; the except returns {} and leaves self.goals as far as it got.      *)
get_savings_goals(st, t) ==
    LET done == ConvertedPrefix(st.savings_goals, t)
        ok   == Len(done) = Len(st.savings_goals)
    IN  [goals |-> done, returned |-> IF ok THEN done ELSE <<>>, failed |-> ~ok]

-----------------------------------------------------------------------------
(* CORE GOAL LOGIC                                                         *)
(*                                                                         *)
(* A method body is split into operators that receive the intermediate     *)
(* values of the body (progress, capacity, ...) as parameters.             *)

Truthy(date) == date.kind # "none"

(* The ratio without the cap of line 281.                                  *)
unclamped_completion(goal) ==
    IF goal.target_amount > 0
    THEN Norm(goal.current_amount * 100, goal.target_amount)
    ELSE R(0)

completion_percentage(goal) ==
    IF goal.target_amount > 0
    THEN RMin(Norm(goal.current_amount * 100, goal.target_amount), R(100))
    ELSE R(0)

months_between(from, to) == MonthIndex(to) - MonthIndex(from)

months_elapsed(goal, t) == Max(1, months_between(goal.created_date.t, t))

total_months(goal) == Max(1, months_between(goal.created_date.t, goal.target_date.t))

months_remaining(goal, t) ==
    IF Truthy(goal.target_date)
    THEN Some(Max(0, months_between(t, goal.target_date.t)))
    ELSE None

time_elapsed_percentage(goal, elapsed) ==
    IF Truthy(goal.target_date) THEN Norm(elapsed * 100, total_months(goal)) ELSE R(0)

(* A variant that expects a goal without a deadline to be funded already.  *)
expected_in_full(goal, time_elapsed) ==
    IF Truthy(goal.target_date) THEN time_elapsed ELSE R(100)

expected_progress(goal, time_elapsed) ==
    IF Truthy(goal.target_date) THEN time_elapsed ELSE R(0)

(* The variance test applied to every goal, dated or not.                  *)
on_track_by_variance(goal, variance, elapsed) == RGe(variance, R(-10))

on_track(goal, variance, elapsed) ==
    IF Truthy(goal.target_date)
    THEN RGe(variance, R(-10))
    ELSE RGe(R(goal.current_amount),
             RMul(R(goal.monthly_contribution * elapsed), <<9, 10>>))

GoalProgress(goal, completion, time_elapsed, expected, variance, elapsed, remaining) ==
    [fault |-> "none",
     goal_id |-> goal.goal_id,
     completion_percentage |-> Round2(completion),
     time_elapsed_percentage |-> Round2(time_elapsed),
     expected_progress |-> Round2(expected),
     actual_progress |-> Round2(completion),
     variance |-> Round2(variance),
     on_track |-> on_track(goal, variance, elapsed),
     months_elapsed |-> elapsed,
     months_remaining |-> remaining]

progress_against(goal, completion, time_elapsed, expected, elapsed, remaining) ==
    GoalProgress(goal, completion, time_elapsed, expected,
                 RSub(completion, expected), elapsed, remaining)

progress_over(goal, completion, time_elapsed, elapsed, remaining) ==
    progress_against(goal, completion, time_elapsed,
                     expected_progress(goal, time_elapsed), elapsed, remaining)

progress_after(goal, elapsed, t) ==
    progress_over(goal, completion_percentage(goal),
                  time_elapsed_percentage(goal, elapsed), elapsed,
                  months_remaining(goal, t))

(* datetime.fromisoformat raises ValueError on a string it cannot parse.   *)
calculate_goal_progress(goal, t) ==
    IF goal.created_date.kind # "date" \/ goal.target_date.kind = "bad"
    THEN [fault |-> "ValueError"]
    ELSE progress_after(goal, months_elapsed(goal, t), t)

(* The multiplier taken from the stress_score alone:                       *)
(* max(0.6, 1.0 - (stress_score / 100) * 0.4)                               *)
score_multiplier(stress) ==
    RMax(<<3, 5>>, RSub(R(1), RMul(Norm(stress.stress_score, 100), <<2, 5>>)))

stress_multiplier(stress) ==
    IF stress.is_stressed
    THEN RMax(<<3, 5>>, RSub(R(1), RMul(Norm(stress.stress_score, 100), <<2, 5>>)))
    ELSE R(1)

adjusted_base(st) ==
    IF st.overspending.is_overspending
    THEN RSub(R(st.income - st.expenses),
              RMul(R(st.overspending.overspending_amount), <<1, 2>>))
    ELSE R(st.income - st.expenses)

(* The product without the floor at 0.                                     *)
unfloored_band(base, share, mult) == RMul(RMul(base, share), mult)

(* max(0, base_capacity * share * stress_multiplier)                       *)
band(base, share, mult) == RMax(R(0), RMul(RMul(base, share), mult))

capacity_bands(st, base, mult) ==
    [base_capacity |-> Round2(base),
     conservative |-> Round2(band(base, <<1, 5>>, mult)),
     moderate |-> Round2(band(base, <<2, 5>>, mult)),
     aggressive |-> Round2(band(base, <<7, 10>>, mult)),
     maximum |-> Round2(band(base, R(1), mult)),
     stress_adjusted |-> RLt(mult, R(1)),
     overspending_impact |-> get_overspending_data(st).is_overspending]

estimate_monthly_savings_capacity(st) ==
    capacity_bands(st, adjusted_base(st), stress_multiplier(get_stress_index(st)))

(* Required monthly savings: the "due now" branch is taken only inside     *)
(* "goal.target_date and progress.months_remaining", which a remaining     *)
(* time of 0 months does not pass.                                         *)
required_monthly(goal, progress) ==
    IF Truthy(goal.target_date) /\ progress.months_remaining.some
       /\ progress.months_remaining.v # 0
    THEN IF progress.months_remaining.v > 0
         THEN Norm(goal.target_amount - goal.current_amount, progress.months_remaining.v)
         ELSE R(goal.target_amount - goal.current_amount)
    ELSE R(goal.monthly_contribution)

(* Check 1: which capacity band the requirement exceeds.                   *)
capacity_check(required, capacity) ==
    IF RGt(required, capacity.maximum) THEN "exceeds_maximum"
    ELSE IF RGt(required, capacity.aggressive) THEN "aggressive"
    ELSE IF RGt(required, capacity.moderate) THEN "above_moderate"
    ELSE "within"

capacity_penalty(check) ==
    CASE check = "exceeds_maximum" -> 50
      [] check = "aggressive" -> 20
      [] check = "above_moderate" -> 10
      [] OTHER -> 0

(* Check 4: progress.variance < -20.                                       *)
behind_schedule(progress) == RLt(progress.variance, R(-20))

(* Check 5: months_remaining < 3 and remaining_amount > maximum * 3.       *)
timeline_unrealistic(goal, progress, capacity) ==
    /\ Truthy(goal.target_date)
    /\ progress.months_remaining.some
    /\ progress.months_remaining.v < 3
    /\ RGt(R(goal.target_amount - goal.current_amount), RMul(capacity.maximum, R(3)))

(* int(remaining_amount / capacity['moderate']) - months_remaining         *)
extend_deadline_by(goal, progress, capacity) ==
    IF RZero(capacity.moderate)
    THEN [fault |-> "ZeroDivisionError", months |-> 0]
    ELSE [fault |-> "none",
          months |-> RTrunc(RDiv(R(goal.target_amount - goal.current_amount),
                                 capacity.moderate))
                     - progress.months_remaining.v]

(* The score without the floor at 0.                                       *)
unfloored_score(check, stressed, overspending, behind, imminent) ==
    100 - (capacity_penalty(check)
           + (IF stressed THEN 15 ELSE 0)
           + (IF overspending THEN 15 ELSE 0)
           + (IF behind THEN 20 ELSE 0)
           + (IF imminent THEN 30 ELSE 0))

feasibility_score(check, stressed, overspending, behind, imminent) ==
    Max(0, 100 - (capacity_penalty(check)
                  + (IF stressed THEN 15 ELSE 0)
                  + (IF overspending THEN 15 ELSE 0)
                  + (IF behind THEN 20 ELSE 0)
                  + (IF imminent THEN 30 ELSE 0)))

feasibility_summary(score) ==
    IF score >= 80 THEN "Highly feasible"
    ELSE IF score >= 60 THEN "Feasible with discipline"
    ELSE IF score >= 40 THEN "Challenging but possible"
    ELSE "Unrealistic under current conditions"

feasibility_reasons(check, stressed, overspending, behind, imminent) ==
    (IF check = "within" THEN <<>> ELSE <<check>>)
    \o (IF stressed THEN <<"stress">> ELSE <<>>)
    \o (IF overspending THEN <<"overspending">> ELSE <<>>)
    \o (IF behind THEN <<"behind_schedule">> ELSE <<>>)
    \o (IF imminent THEN <<"insufficient_time">> ELSE <<>>)

feasibility_recommendations(check, stressed, overspending, behind, imminent) ==
    (IF check = "exceeds_maximum" THEN <<"extend_or_reduce">>
     ELSE IF check = "aggressive" THEN <<"requires_discipline">> ELSE <<>>)
    \o (IF stressed THEN <<"reduce_stress_first">> ELSE <<>>)
    \o (IF overspending THEN <<"address_overspending">> ELSE <<>>)
    \o (IF behind THEN <<"adjust_contribution">> ELSE <<>>)
    \o (IF imminent THEN <<"extend_deadline">> ELSE <<>>)

(* Feasibility decided by the timeline check alone.                        *)
feasible_unless_imminent(check, imminent) == ~imminent

is_feasible(check, imminent) == check # "exceeds_maximum" /\ ~imminent

capacity_utilization(required, capacity) ==
    IF RGt(capacity.maximum, R(0))
    THEN Round2(RMul(RDiv(required, capacity.maximum), R(100)))
    ELSE R(0)

FeasibilityResult(required, capacity, check, stressed, overspending, behind, imminent) ==
    [fault |-> "none",
     is_feasible |-> is_feasible(check, imminent),
     feasibility_score |->
         feasibility_score(check, stressed, overspending, behind, imminent),
     required_monthly |-> Round2(required),
     available_capacity |-> capacity.moderate,
     capacity_utilization |-> capacity_utilization(required, capacity),
     summary |-> feasibility_summary(
         feasibility_score(check, stressed, overspending, behind, imminent)),
     reasons |-> feasibility_reasons(check, stressed, overspending, behind, imminent),
     recommendations |->
         feasibility_recommendations(check, stressed, overspending, behind, imminent)]

feasibility_checks(goal, st, capacity, progress, required, imminent) ==
    IF imminent /\ extend_deadline_by(goal, progress, capacity).fault # "none"
    THEN [fault |-> "ZeroDivisionError"]
    ELSE FeasibilityResult(required, capacity, capacity_check(required, capacity),
                           get_stress_index(st).is_stressed,
                           get_overspending_data(st).is_overspending,
                           behind_schedule(progress), imminent)

feasibility_of(goal, st, capacity, progress) ==
    IF progress.fault # "none" THEN [fault |-> progress.fault]
    ELSE feasibility_checks(goal, st, capacity, progress,
                            required_monthly(goal, progress),
                            timeline_unrealistic(goal, progress, capacity))

evaluate_goal_feasibility(goal, st, t) ==
    feasibility_of(goal, st, estimate_monthly_savings_capacity(st),
                   calculate_goal_progress(goal, t))

-----------------------------------------------------------------------------
(* RISK & HEALTH ANALYSIS                                                  *)

(* The status with the feasibility test ahead of the completion test.      *)
health_by_feasibility(progress, feasibility) ==
    IF ~feasibility.is_feasible \/ feasibility.feasibility_score < 30
    THEN "unrealistic"
    ELSE IF RGe(progress.completion_percentage, R(100)) THEN "completed"
    ELSE IF progress.on_track /\ RGe(progress.variance, R(-5))
         THEN IF feasibility.feasibility_score >= 70 THEN "on_track" ELSE "at_risk"
    ELSE IF RGe(progress.variance, R(-20)) THEN "at_risk"
    ELSE "off_track"

health_of(progress, feasibility) ==
    IF RGe(progress.completion_percentage, R(100)) THEN "completed"
    ELSE IF ~feasibility.is_feasible \/ feasibility.feasibility_score < 30
         THEN "unrealistic"
    ELSE IF progress.on_track /\ RGe(progress.variance, R(-5))
         THEN IF feasibility.feasibility_score >= 70 THEN "on_track" ELSE "at_risk"
    ELSE IF RGe(progress.variance, R(-20)) THEN "at_risk"
    ELSE "off_track"

(* Both analyses run before the status is decided.                         *)
health_status(progress, feasibility) ==
    IF progress.fault # "none" THEN [fault |-> progress.fault]
    ELSE IF feasibility.fault # "none" THEN [fault |-> feasibility.fault]
    ELSE [fault |-> "none", health |-> health_of(progress, feasibility)]

assign_goal_health_status(goal, st, t) ==
    health_status(calculate_goal_progress(goal, t),
                  evaluate_goal_feasibility(goal, st, t))

-----------------------------------------------------------------------------
(* PREDICTIVE ANALYTICS                                                    *)

NoPrediction == [some |-> FALSE, v |-> R(0)]

adjustment_factor(st) ==
    RMul(IF get_overspending_data(st).is_overspending THEN <<17, 20>> ELSE R(1),
         IF get_stress_index(st).is_stressed THEN <<9, 10>> ELSE R(1))

(* The historical rate: current_amount / months_elapsed, adjusted.         *)
predicted_monthly_rate(goal, progress, st) ==
    RMul(Norm(goal.current_amount, progress.months_elapsed), adjustment_factor(st))

(* A fallback that keeps the base probability of the dated branch.         *)
base_probability_fallback ==
    [months_to_completion |-> R(999), predicted_date |-> NoPrediction,
     probability |-> <<7, 10>>]

(* The branch taken when the predicted rate is not positive.               *)
unresolvable_prediction ==
    [months_to_completion |-> R(999), predicted_date |-> NoPrediction,
     probability |-> <<1, 10>>]

success_probability(goal, progress, predicted) ==
    IF Truthy(goal.target_date)
    THEN IF RLe(predicted, R(goal.target_date.t))
         THEN RMin(<<19, 20>>,
                   RAdd(<<7, 10>>, RMul(RDiv(progress.variance, R(100)), <<1, 4>>)))
         ELSE RMax(<<1, 10>>,
                   RSub(<<7, 10>>,
                        RMul(Norm(RFloor(RSub(predicted, R(goal.target_date.t))), 365),
                             <<3, 10>>)))
    ELSE IF RGe(progress.variance, R(-10)) THEN <<4, 5>> ELSE <<3, 5>>

completion_after(goal, progress, months, t) ==
    [months_to_completion |-> months,
     predicted_date |-> [some |-> TRUE, v |-> RAdd(R(t), RMul(months, R(DaysPerMonth)))],
     probability |->
         success_probability(goal, progress, RAdd(R(t), RMul(months, R(DaysPerMonth))))]

resolved_prediction(goal, progress, rate, t) ==
    completion_after(goal, progress,
                     RDiv(R(goal.target_amount - goal.current_amount), rate), t)

Prediction(goal, progress, rate, p) ==
    [fault |-> "none",
     goal_id |-> goal.goal_id,
     predicted_completion_date |-> p.predicted_date,
     months_to_completion |-> Round1(p.months_to_completion),
     success_probability |-> Round2(p.probability),
     predicted_monthly_rate |-> Round2(rate),
     target_monthly_rate |-> goal.monthly_contribution,
     confidence |-> IF progress.months_elapsed >= 3 THEN "high"
                    ELSE IF progress.months_elapsed >= 1 THEN "medium"
                    ELSE "low"]

(* datetime.now() + timedelta(days = months * 30) raises OverflowError     *)
(* when the sum lies beyond datetime.max.                                  *)
DaysToDatetimeMax == 2912137

date_overflows(months) == RGt(RMul(months, R(DaysPerMonth)), R(DaysToDatetimeMax))

prediction_at_rate(goal, progress, rate, t) ==
    IF RGt(rate, R(0))
    THEN IF date_overflows(RDiv(R(goal.target_amount - goal.current_amount), rate))
         THEN [fault |-> "OverflowError"]
         ELSE Prediction(goal, progress, rate, resolved_prediction(goal, progress, rate, t))
    ELSE Prediction(goal, progress, rate, unresolvable_prediction)

prediction_of(goal, st, progress, t) ==
    IF progress.fault # "none" THEN [fault |-> progress.fault]
    ELSE prediction_at_rate(goal, progress, predicted_monthly_rate(goal, progress, st), t)

predict_goal_completion(goal, st, t) ==
    prediction_of(goal, st, calculate_goal_progress(goal, t), t)

NoDelay(goal) ==
    [fault |-> "none", goal_id |-> goal.goal_id, has_delay |-> FALSE,
     delay_months |-> R(0), delay_reasons |-> <<>>, risk_level |-> "low"]

(* The sentinel delay without its risk bucket.                             *)
UnrankedDelay(goal) ==
    [NoDelay(goal) EXCEPT !.has_delay = TRUE, !.delay_months = R(999),
                          !.delay_reasons = <<"unachievable_at_current_rate">>]

UnachievableDelay(goal) ==
    [NoDelay(goal) EXCEPT !.has_delay = TRUE, !.delay_months = R(999),
                          !.risk_level = "critical",
                          !.delay_reasons = <<"unachievable_at_current_rate">>]

(* The buckets with a delay of exactly 3 months counted as medium.         *)
inclusive_risk_level(delay_months) ==
    IF RGt(delay_months, R(6)) THEN "high"
    ELSE IF RGe(delay_months, R(3)) THEN "medium"
    ELSE "low"

delay_risk_level(delay_months) ==
    IF RGt(delay_months, R(6)) THEN "high"
    ELSE IF RGt(delay_months, R(3)) THEN "medium"
    ELSE "low"

(* (predicted_date - target_date).days / 30                                *)
delay_months_of(goal, predicted) ==
    Norm(RFloor(RSub(predicted, R(goal.target_date.t))), DaysPerMonth)

late_delay(goal, st, delay_months, progress, feasibility) ==
    IF feasibility.fault # "none" THEN [fault |-> feasibility.fault]
    ELSE [NoDelay(goal) EXCEPT
            !.has_delay = TRUE,
            !.delay_months = Round1(delay_months),
            !.risk_level = delay_risk_level(delay_months),
            !.delay_reasons =
                (IF RLt(progress.variance, R(-15)) THEN <<"behind_schedule">> ELSE <<>>)
                \o (IF get_overspending_data(st).is_overspending
                    THEN <<"overspending">> ELSE <<>>)
                \o (IF get_stress_index(st).is_stressed THEN <<"stress">> ELSE <<>>)
                \o (IF RGt(feasibility.capacity_utilization, R(80))
                    THEN <<"limited_capacity">> ELSE <<>>)]

IsLate(goal, prediction) ==
    /\ prediction.fault = "none"
    /\ Truthy(goal.target_date)
    /\ prediction.predicted_completion_date.some
    /\ RGt(prediction.predicted_completion_date.v, R(goal.target_date.t))

delay_of(goal, st, t, prediction) ==
    IF prediction.fault # "none" THEN [fault |-> prediction.fault]
    ELSE IF ~Truthy(goal.target_date) THEN NoDelay(goal)
    ELSE IF ~prediction.predicted_completion_date.some THEN UnachievableDelay(goal)
    ELSE IF ~IsLate(goal, prediction) THEN NoDelay(goal)
    ELSE late_delay(goal, st,
                    delay_months_of(goal, prediction.predicted_completion_date.v),
                    calculate_goal_progress(goal, t),
                    evaluate_goal_feasibility(goal, st, t))

estimate_goal_delay(goal, st, t) ==
    delay_of(goal, st, t, predict_goal_completion(goal, st, t))

-----------------------------------------------------------------------------
(* Helpers over the goals dict, kept in insertion order.                   *)

RECURSIVE SumSeq(_)
SumSeq(xs) == IF xs = <<>> THEN 0 ELSE Head(xs) + SumSeq(Tail(xs))

RECURSIVE Flatten(_)
Flatten(xss) == IF xss = <<>> THEN <<>> ELSE Head(xss) \o Flatten(Tail(xss))

Contributions(gs) == [i \in 1..Len(gs) |-> gs[i].monthly_contribution]
Ids(gs) == [i \in 1..Len(gs) |-> gs[i].goal_id]

(* The exception the first failing call of a loop raises, if any.          *)
RECURSIVE FirstFault(_)
FirstFault(rs) ==
    IF rs = <<>> THEN "none"
    ELSE IF Head(rs).fault # "none" THEN Head(rs).fault
    ELSE FirstFault(Tail(rs))

-----------------------------------------------------------------------------
(* Conflict detection.                                                     *)

FlatIds(ids) == [flat |-> TRUE, ids |-> ids, short_term |-> <<>>, long_term |-> <<>>]
SplitIds(short, long) == [flat |-> FALSE, ids |-> <<>>, short_term |-> short, long_term |-> long]

(* Conflict 1: total requirements exceed the maximum capacity.             *)
capacity_overload(gs, capacity) ==
    IF RGt(R(SumSeq(Contributions(gs))), capacity.maximum)
    THEN <<[type |-> "capacity_overload", severity |-> "high",
            description |-> "All goals require more than the maximum capacity",
            affected_goals |-> FlatIds(Ids(gs)),
            recommendation |-> "Prioritize goals or extend timelines",
            feasibility_score |-> -1]>>
    ELSE <<>>

IsHigh(g) == g.priority = "high"

competing(high, capacity) ==
    IF Len(high) > 1 /\ RGt(R(SumSeq(Contributions(high))), capacity.aggressive)
    THEN <<[type |-> "priority_conflict", severity |-> "medium",
            description |-> "Multiple high-priority goals competing",
            affected_goals |-> FlatIds(Ids(high)),
            recommendation |-> "Re-evaluate goal priorities or adjust contribution amounts",
            feasibility_score |-> -1]>>
    ELSE <<>>

(* Conflict 2: several high priority goals competing.                      *)
priority_conflict(gs, capacity) == competing(SelectSeq(gs, IsHigh), capacity)

(* (target.year - now.year) * 12 + (target.month - now.month)              *)
months_away(goal, t) ==
    (YearOf(goal.target_date.t) - YearOf(t)) * 12
    + (MonthOf(goal.target_date.t) - MonthOf(t))

IsDated(g) == Truthy(g.target_date)

short_term_goals(gs, t) ==
    LET IsShort(g) == IsDated(g) /\ months_away(g, t) <= 12
    IN  SelectSeq(gs, IsShort)

long_term_goals(gs, t) ==
    LET IsLong(g) == IsDated(g) /\ months_away(g, t) > 12
    IN  SelectSeq(gs, IsLong)

short_against_long(short, long, capacity) ==
    IF short # <<>> /\ long # <<>>
       /\ RGt(R(SumSeq(Contributions(short))), capacity.moderate)
    THEN <<[type |-> "temporal_conflict", severity |-> "medium",
            description |->
                "Short-term goal focus may compromise long-term financial stability",
            affected_goals |-> SplitIds(Ids(short), Ids(long)),
            recommendation |-> "Ensure emergency fund and retirement goals maintain minimum contributions",
            feasibility_score |-> -1]>>
    ELSE <<>>

(* Conflict 3: short-term goals against long-term ones.                    *)
temporal_conflict(gs, capacity, t) ==
    short_against_long(short_term_goals(gs, t), long_term_goals(gs, t), capacity)

first_recommendation(feasibility) ==
    IF feasibility.recommendations # <<>> THEN feasibility.recommendations[1]
    ELSE "Review goal parameters"

(* Conflict 4: one conflict per goal that is not feasible.                 *)
lifestyle_conflicts(gs, feas) ==
    Flatten([i \in 1..Len(gs) |->
        IF ~feas[i].is_feasible
        THEN <<[type |-> "lifestyle_conflict", severity |-> "high",
                description |-> "Goal is unachievable under current spending patterns",
                affected_goals |-> FlatIds(<<gs[i].goal_id>>),
                recommendation |-> first_recommendation(feas[i]),
                feasibility_score |-> feas[i].feasibility_score]>>
        ELSE <<>>])

HasBadTargetDate(g) == g.target_date.kind = "bad"

(* The third loop parses every target date before the fourth loop          *)
(* evaluates any goal.                                                     *)
conflicts_among(gs, capacity, feas, t) ==
    IF SelectSeq(gs, HasBadTargetDate) # <<>> THEN [fault |-> "ValueError"]
    ELSE IF FirstFault(feas) # "none" THEN [fault |-> FirstFault(feas)]
    ELSE [fault |-> "none",
          conflicts |-> capacity_overload(gs, capacity)
                        \o priority_conflict(gs, capacity)
                        \o temporal_conflict(gs, capacity, t)
                        \o lifestyle_conflicts(gs, feas)]

detect_goal_conflicts(gs, st, t) ==
    IF gs = <<>> THEN [fault |-> "none", conflicts |-> <<>>]
    ELSE conflicts_among(gs, estimate_monthly_savings_capacity(st),
                         [i \in 1..Len(gs) |-> evaluate_goal_feasibility(gs[i], st, t)],
                         t)

-----------------------------------------------------------------------------
(* Stress and overspending integration.                                    *)

IsLow(g) == g.priority = "low"
IsLowOrMedium(g) == g.priority \in {"low", "medium"}

NoAdjustment(stress) ==
    [stress_detected |-> stress.is_stressed, recommendations |-> <<>>,
     frozen_goals |-> <<>>, reduced_contributions |-> <<>>]

reduced_contribution(g) ==
    [goal_id |-> g.goal_id,
     current_contribution |-> g.monthly_contribution,
     recommended_contribution |-> Round2(RMul(R(g.monthly_contribution), <<1, 2>>))]

adjustments_under(gs, stress) ==
    IF ~stress.is_stressed
    THEN [NoAdjustment(stress) EXCEPT !.recommendations = <<"maintain_strategy">>]
    ELSE IF stress.stress_score > 70
    THEN [NoAdjustment(stress) EXCEPT
            !.frozen_goals = Ids(SelectSeq(gs, IsLow)),
            !.recommendations = <<"essential_goals_only", "pause_low_priority">>]
    ELSE IF stress.stress_score > 40
    THEN [NoAdjustment(stress) EXCEPT
            !.reduced_contributions =
                [i \in 1..Len(SelectSeq(gs, IsLowOrMedium)) |->
                    reduced_contribution(SelectSeq(gs, IsLowOrMedium)[i])],
            !.recommendations = <<"reduce_contributions", "prioritize_stability">>]
    ELSE [NoAdjustment(stress) EXCEPT !.recommendations = <<"monitor_stress">>]

adjust_goals_using_stress(gs, st) == adjustments_under(gs, get_stress_index(st))

ContributesMonthly(g) == g.monthly_contribution > 0

(* The delay of one goal if the overspending continues.                    *)
reduced_rate(g, amount) ==
    RMax(R(0), RSub(R(g.monthly_contribution), RMul(R(amount), <<3, 10>>)))

overspending_delay(g, amount) ==
    IF RGt(reduced_rate(g, amount), R(0))
    THEN RTrunc(RSub(RDiv(R(g.target_amount - g.current_amount), reduced_rate(g, amount)),
                     RDiv(R(g.target_amount - g.current_amount),
                          R(g.monthly_contribution))))
    ELSE 999

impact_severity(d) == IF d > 6 THEN "high" ELSE IF d > 3 THEN "medium" ELSE "low"

goal_delay(g, amount) ==
    [goal_id |-> g.goal_id,
     delay_months |-> overspending_delay(g, amount),
     impact_severity |-> impact_severity(overspending_delay(g, amount))]

NoImpact(overspending) ==
    [fault |-> "none",
     overspending_detected |-> overspending.is_overspending,
     severity |-> overspending.severity,
     affected_goals |-> <<>>, estimated_delay |-> <<>>, recovery_actions |-> <<>>]

impact_on(affected, overspending, progress) ==
    IF ~overspending.is_overspending THEN NoImpact(overspending)
    ELSE IF FirstFault(progress) # "none" THEN [fault |-> FirstFault(progress)]
    ELSE [NoImpact(overspending) EXCEPT
            !.affected_goals = Ids(affected),
            !.estimated_delay =
                [i \in 1..Len(affected) |->
                    goal_delay(affected[i], overspending.overspending_amount)],
            !.recovery_actions =
                (IF overspending.affected_categories # <<>>
                 THEN <<"reduce_spending_in_categories">> ELSE <<>>)
                \o <<"reclaim_overspending">>
                \o (IF overspending.severity = "high"
                    THEN <<"freeze_non_essential">> ELSE <<>>)]

integrate_overspending_impact(gs, st, t) ==
    impact_on(SelectSeq(gs, ContributesMonthly), get_overspending_data(st),
              [i \in 1..Len(gs) |-> calculate_goal_progress(gs[i], t)])

-----------------------------------------------------------------------------
(* SMART INSIGHTS GENERATION                                               *)

(* title and message are texts built from the type and the goal; the       *)
(* record keeps the type as their content.                                 *)
Insight(type, priority, goal_id, action) ==
    [type |-> type, priority |-> priority, goal_id |-> goal_id,
     title |-> type, message |-> type, action |-> action]

NoGoalsInsight == Insight("no_goals", "high", "", "Create a goal")

(* total_contributions / maximum * 100, or 0 without capacity.             *)
utilization(gs, capacity) ==
    IF RGt(capacity.maximum, R(0))
    THEN RMul(RDiv(R(SumSeq(Contributions(gs))), capacity.maximum), R(100))
    ELSE R(0)

capacity_insights(gs, capacity) ==
    IF RLt(utilization(gs, capacity), R(50))
    THEN <<Insight("underutilized_capacity", "medium", "",
                   "Consider increasing goal contributions or adding new goals")>>
    ELSE IF RGt(utilization(gs, capacity), R(90))
    THEN <<Insight("overutilized_capacity", "high", "",
                   "Review goal priorities or extend timelines")>>
    ELSE <<>>

goal_insights(g, progress, feasibility) ==
    (IF RLt(progress.variance, R(-20))
     THEN <<Insight("behind_schedule", "high", g.goal_id, "increase_or_extend")>>
     ELSE IF RGt(progress.completion_percentage, R(80))
             /\ RLt(progress.completion_percentage, R(100))
     THEN <<Insight("near_completion", "low", g.goal_id, "stay_focused")>>
     ELSE <<>>)
    \o (IF ~feasibility.is_feasible
        THEN <<Insight("unrealistic_goal", "critical", g.goal_id,
                       first_recommendation(feasibility))>>
        ELSE <<>>)

total_delay(impact) ==
    SumSeq([i \in 1..Len(impact.estimated_delay) |->
               impact.estimated_delay[i].delay_months])

overspending_insights(impact) ==
    IF impact.overspending_detected /\ total_delay(impact) > 0
    THEN <<Insight("overspending_impact", "high", "", impact.recovery_actions[1])>>
    ELSE <<>>

stress_insights(adjustments) ==
    IF adjustments.stress_detected /\ adjustments.recommendations # <<>>
    THEN <<Insight("stress_warning", "high", "",
                   "Consider pausing or reducing low-priority goals temporarily")>>
    ELSE <<>>

IsHighSeverity(c) == c.severity = "high"

first_high_conflict(high) ==
    IF high # <<>>
    THEN <<Insight("goal_conflict", "critical", "", high[1].recommendation)>>
    ELSE <<>>

conflict_insights(conflicts) == first_high_conflict(SelectSeq(conflicts, IsHighSeverity))

(* Per goal: progress, then feasibility, then prediction; then the         *)
(* overspending impact, the stress adjustments and the conflicts.          *)
insights_from(gs, capacity, progress, feas, pred, impact, adjustments, conflicts) ==
    IF FirstFault(Flatten([i \in 1..Len(gs) |-> <<progress[i], feas[i], pred[i]>>]))
       # "none"
    THEN [fault |->
            FirstFault(Flatten([i \in 1..Len(gs) |-> <<progress[i], feas[i], pred[i]>>]))]
    ELSE IF impact.fault # "none" THEN [fault |-> impact.fault]
    ELSE IF conflicts.fault # "none" THEN [fault |-> conflicts.fault]
    ELSE [fault |-> "none",
          insights |->
              capacity_insights(gs, capacity)
              \o Flatten([i \in 1..Len(gs) |-> goal_insights(gs[i], progress[i], feas[i])])
              \o overspending_insights(impact)
              \o stress_insights(adjustments)
              \o conflict_insights(conflicts.conflicts)]

generate_savings_insights(gs, st, t) ==
    IF gs = <<>> THEN [fault |-> "none", insights |-> <<NoGoalsInsight>>]
    ELSE insights_from(gs, estimate_monthly_savings_capacity(st),
                       [i \in 1..Len(gs) |-> calculate_goal_progress(gs[i], t)],
                       [i \in 1..Len(gs) |-> evaluate_goal_feasibility(gs[i], st, t)],
                       [i \in 1..Len(gs) |-> predict_goal_completion(gs[i], st, t)],
                       integrate_overspending_impact(gs, st, t),
                       adjust_goals_using_stress(gs, st),
                       detect_goal_conflicts(gs, st, t))

-----------------------------------------------------------------------------
(* PUBLIC API                                                              *)

HealthNames == {"on_track", "at_risk", "off_track", "unrealistic", "completed"}

CountHealth(healths, name) ==
    Cardinality({i \in 1..Len(healths) : healths[i].health = name})

(* The summary with the completed goals left out of goals_on_track.        *)
summary_without_completed(gs, total_target, total_saved, count) ==
    [total_goals |-> Len(gs),
     total_target_amount |-> total_target,
     total_saved |-> total_saved,
     total_remaining |-> total_target - total_saved,
     overall_progress_percentage |->
         IF total_target > 0
         THEN Round2(Norm(total_saved * 100, total_target)) ELSE R(0),
     health_distribution |-> count,
     goals_on_track |-> count["on_track"],
     goals_needing_attention |->
         count["at_risk"] + count["off_track"] + count["unrealistic"]]

report_summary(gs, total_target, total_saved, count) ==
    [total_goals |-> Len(gs),
     total_target_amount |-> total_target,
     total_saved |-> total_saved,
     total_remaining |-> total_target - total_saved,
     overall_progress_percentage |->
         IF total_target > 0
         THEN Round2(Norm(total_saved * 100, total_target)) ELSE R(0),
     health_distribution |-> count,
     goals_on_track |-> count["on_track"] + count["completed"],
     goals_needing_attention |->
         count["at_risk"] + count["off_track"] + count["unrealistic"]]

summary_of(gs, healths) ==
    report_summary(gs,
                   SumSeq([i \in 1..Len(gs) |-> gs[i].target_amount]),
                   SumSeq([i \in 1..Len(gs) |-> gs[i].current_amount]),
                   [h \in HealthNames |-> CountHealth(healths, h)])

(* The report is compiled once every analysis has returned; the clock is   *)
(* read again for report_generated.                                        *)
compile_report(gs, progress, feas, healths, pred, delays, insights, conflicts, capacity, adjustments, impact, generated) ==
    IF FirstFault(Flatten([i \in 1..Len(gs) |->
            <<progress[i], feas[i], healths[i], pred[i], delays[i]>>])) # "none"
    THEN [fault |-> FirstFault(Flatten([i \in 1..Len(gs) |->
            <<progress[i], feas[i], healths[i], pred[i], delays[i]>>]))]
    ELSE IF insights.fault # "none" THEN [fault |-> insights.fault]
    ELSE IF conflicts.fault # "none" THEN [fault |-> conflicts.fault]
    ELSE IF impact.fault # "none" THEN [fault |-> impact.fault]
    ELSE [fault |-> "none",
          summary |-> summary_of(gs, healths),
          goals |-> [i \in 1..Len(gs) |->
                        [goal_info |-> gs[i], progress |-> progress[i],
                         feasibility |-> feas[i],
                         health_status |-> healths[i].health,
                         prediction |-> pred[i], delay_estimate |-> delays[i]]],
          conflicts |-> conflicts.conflicts,
          insights |-> insights.insights,
          savings_capacity |-> capacity,
          stress_adjustments |-> adjustments,
          overspending_impact |-> impact,
          report_generated |-> generated]

analyse(gs, st, t, generated) ==
    compile_report(gs,
        [i \in 1..Len(gs) |-> calculate_goal_progress(gs[i], t)],
        [i \in 1..Len(gs) |-> evaluate_goal_feasibility(gs[i], st, t)],
        [i \in 1..Len(gs) |-> assign_goal_health_status(gs[i], st, t)],
        [i \in 1..Len(gs) |-> predict_goal_completion(gs[i], st, t)],
        [i \in 1..Len(gs) |-> estimate_goal_delay(gs[i], st, t)],
        generate_savings_insights(gs, st, t),
        detect_goal_conflicts(gs, st, t),
        estimate_monthly_savings_capacity(st),
        adjust_goals_using_stress(gs, st),
        integrate_overspending_impact(gs, st, t),
        generated)

report_on(st, loaded, t, generated) ==
    [state |-> st, goals |-> loaded.goals,
     report |-> analyse(loaded.goals, st, t, generated)]

report_of(st, t, generated) == report_on(st, get_savings_goals(st, t), t, generated)

(* engine.get_savings_goals_report: load everything, then analyse.         *)
get_savings_goals_report(t, generated) == report_of(load_state, t, generated)

NotFound == [fault |-> "none", error |-> "Goal not found"]

health_record(goal, progress, health) ==
    IF progress.fault # "none" THEN [fault |-> progress.fault]
    ELSE IF health.fault # "none" THEN [fault |-> health.fault]
    ELSE [fault |-> "none", goal_id |-> goal.goal_id, goal_name |-> goal.name,
          health_status |-> health.health,
          completion_percentage |-> progress.completion_percentage,
          on_track |-> progress.on_track]

health_check_of(goal, st, t) ==
    health_record(goal, calculate_goal_progress(goal, t),
                  assign_goal_health_status(goal, st, t))

lookup(goal_id, gs, st, t) ==
    IF \A i \in 1..Len(gs) : gs[i].goal_id # goal_id THEN NotFound
    ELSE health_check_of(gs[CHOOSE i \in 1..Len(gs) : gs[i].goal_id = goal_id], st, t)

health_check_in(goal_id, st, t) == lookup(goal_id, get_savings_goals(st, t).goals, st, t)

(* quick_goal_health_check builds an engine of its own.                    *)
quick_goal_health_check(goal_id, t) == health_check_in(goal_id, load_state, t)

-----------------------------------------------------------------------------
(* The inputs the model draws from.                                        *)

MaxGoals == 2
MaxTicks == 1
MaxAmountSteps == 3

AmountStep == 6
StartDay == 24 * DaysPerMonth
StartMonth == MonthIndex(StartDay)

Amounts == {k * AmountStep : k \in 0..MaxAmountSteps}
MonthlyContributions == {0, 3}

(* Deadlines: none, passed, due this month, near, within a year.           *)
TargetDates ==
    {NoDate} \cup {MonthStart(StartMonth + d) : d \in {-2, 0, 1, 6}}
CreatedDates == {MonthStart(StartMonth - 6), MonthStart(StartMonth)}

(* Income and expenses: a surplus, none, a deficit.                        *)
Budgets == {<<50, 45>>, <<45, 45>>, <<45, 50>>}
MildOverspending ==
    [is_overspending |-> TRUE, overspending_amount |-> 4, severity |-> "low",
     affected_categories |-> <<>>]
SevereOverspending ==
    [is_overspending |-> TRUE, overspending_amount |-> 30, severity |-> "high",
     affected_categories |-> <<"dining">>]
Overspendings == {NoOverspending, MildOverspending, SevereOverspending}
(* A stress_score below and above the threshold of the stress module, and  *)
(* the top of the scale.                                                   *)
Stresses ==
    {NoStress,
     [is_stressed |-> FALSE, stress_score |-> 35],
     [is_stressed |-> TRUE, stress_score |-> 35],
     [is_stressed |-> TRUE, stress_score |-> 100]}

GoalId(i) == "g" \o ToString(i)

RawGoal(id, target, current, contribution, target_date, created_date, priority) ==
    [goal_id |-> id, name |-> MissingStr, type |-> MissingStr,
     target_amount |-> target, current_amount |-> current,
     target_date |-> target_date, priority |-> priority,
     monthly_contribution |-> contribution,
     created_date |-> created_date, last_updated |-> NoDate]

(* One goal for the per-goal analyses: every well-formed combination with  *)
(* a target, the goals without one, and the records with an unparseable    *)
(* date.                                                                   *)
SingleGoals ==
    {RawGoal(GoalId(1), Num(2 * AmountStep), Num(current), Num(contribution), due,
             created, MissingStr) :
        current \in Amounts, contribution \in MonthlyContributions,
        due \in TargetDates, created \in CreatedDates}
    \cup
    {RawGoal(GoalId(1), Num(0), Num(current), Num(contribution), due,
             MonthStart(StartMonth - 6), MissingStr) :
        current \in {0, AmountStep}, contribution \in MonthlyContributions,
        due \in {NoDate, MonthStart(StartMonth + 1)}}
    \cup
    {RawGoal(GoalId(1), Num(2 * AmountStep), Num(0), Num(3), due, created, MissingStr) :
        due \in {NoDate, BadDate}, created \in {BadDate, MonthStart(StartMonth - 6)}}

(* Goals whose historical rate is small against what remains: one unit    *)
(* saved in 24 months towards 8 and towards 700 amount steps.              *)
SlowGoals ==
    {RawGoal(GoalId(1), Num(target * AmountStep), Num(1), Num(3), due,
             MonthStart(StartMonth - 24), MissingStr) :
        target \in {8, 700}, due \in {NoDate, MonthStart(StartMonth + 6)}}

(* Goals followed over several passes: with and without a target amount,   *)
(* from nothing saved to more than the target, for every deadline.         *)
PassGoals ==
    {RawGoal(GoalId(1), Num(target), Num(current), Num(3), due,
             MonthStart(StartMonth - 6), MissingStr) :
        target \in {0, 2 * AmountStep}, current \in Amounts, due \in TargetDates}

Signals(goal_records) ==
    {[income |-> b[1], expenses |-> b[2], savings_goals |-> goal_records,
      overspending |-> o, stress_index |-> s] :
        b \in Budgets, o \in Overspendings, s \in Stresses}

(* Raw goal records of a stored application state, by kind: a deadline     *)
(* next month with nothing saved, a deadline beyond a year, a record with  *)
(* only its target, a record float() rejects, a completed low priority     *)
(* goal, a record with an unparseable deadline.                            *)
GoalKinds(id) ==
    {RawGoal(id, Num(2 * AmountStep), Num(0), Num(3),
             MonthStart(StartMonth + 1), MonthStart(StartMonth - 6), "high"),
     RawGoal(id, Num(2 * AmountStep), Num(AmountStep), Num(3),
             MonthStart(StartMonth + 14), MonthStart(StartMonth - 6), "high"),
     RawGoal(id, Num(2 * AmountStep), Missing, Missing, NoDate, NoDate, MissingStr),
     RawGoal(id, Unparseable, Num(0), Num(3), NoDate, MonthStart(StartMonth), "medium"),
     RawGoal(id, Num(2 * AmountStep), Num(3 * AmountStep), Num(3),
             NoDate, MonthStart(StartMonth - 6), "low"),
     RawGoal(id, Num(2 * AmountStep), Num(0), Num(3),
             BadDate, MonthStart(StartMonth - 6), "medium")}

GoalLists(n) ==
    {gs \in [1..n -> UNION {GoalKinds(GoalId(i)) : i \in 1..n}] :
        \A i \in 1..n : gs[i].goal_id = GoalId(i)}

(* Signal profiles: a surplus, none, a surplus under mild pressure, and    *)
(* overspending beyond the surplus under full stress.                      *)
SignalProfiles ==
    {[income |-> 50, expenses |-> 45, overspending |-> NoOverspending,
      stress_index |-> NoStress],
     [income |-> 45, expenses |-> 45, overspending |-> NoOverspending,
      stress_index |-> NoStress],
     [income |-> 50, expenses |-> 45, overspending |-> MildOverspending,
      stress_index |-> [is_stressed |-> TRUE, stress_score |-> 50]],
     [income |-> 50, expenses |-> 45, overspending |-> SevereOverspending,
      stress_index |-> [is_stressed |-> TRUE, stress_score |-> 100]]}

Snapshots ==
    {[income |-> p.income, expenses |-> p.expenses, savings_goals |-> gs,
      overspending |-> p.overspending, stress_index |-> p.stress_index] :
        p \in SignalProfiles, gs \in UNION {GoalLists(n) : n \in 0..MaxGoals}}

(* The clock values a read later in the same call can see.                 *)
LastDay == StartDay + MaxTicks * DaysPerMonth
ClockFrom(t) == {t} \cup (IF t < LastDay THEN {t + DaysPerMonth} ELSE {})

-----------------------------------------------------------------------------
(* The engine as a state machine.                                          *)

NoResult == [op |-> "none"]

Returned(op, goal, value) == [op |-> op, goal |-> goal, value |-> value]

Caches == <<income_data, expense_data, overspending_data, stress_data>>

(* estimate_monthly_savings_capacity calls the four getters.               *)
RefreshAll ==
    /\ income_data' = get_income(state)
    /\ expense_data' = get_expenses(state)
    /\ overspending_data' = get_overspending_data(state)
    /\ stress_data' = get_stress_index(state)

RefreshSignals ==
    /\ overspending_data' = get_overspending_data(state)
    /\ stress_data' = get_stress_index(state)
    /\ UNCHANGED <<income_data, expense_data>>

(* SavingsGoalsEngine(): no state, no goals, empty caches.                 *)
Construct ==
    /\ state = EmptyState
    /\ goals = <<>>
    /\ income_data = get_income(EmptyState)
    /\ expense_data = get_expenses(EmptyState)
    /\ overspending_data = NoOverspending
    /\ stress_data = NoStress
    /\ result = NoResult
    /\ reports = <<>>

Call_calculate_goal_progress(i) ==
    /\ result' = Returned("calculate_goal_progress", goals[i],
                          calculate_goal_progress(goals[i], now))
    /\ UNCHANGED <<store, state, goals, Caches, now, reports>>

Call_estimate_monthly_savings_capacity ==
    /\ RefreshAll
    /\ result' = Returned("estimate_monthly_savings_capacity", <<>>,
                          estimate_monthly_savings_capacity(state))
    /\ UNCHANGED <<store, state, goals, now, reports>>

Call_evaluate_goal_feasibility(i) ==
    /\ RefreshAll
    /\ result' = Returned("evaluate_goal_feasibility", goals[i],
                          evaluate_goal_feasibility(goals[i], state, now))
    /\ UNCHANGED <<store, state, goals, now, reports>>

(* The progress is computed before the feasibility, whose first step is    *)
(* the capacity estimate: a date that does not parse stops the call        *)
(* before any getter runs.                                                 *)
health_status_returned(goal, health) ==
    /\ IF health.fault = "ValueError" THEN UNCHANGED Caches ELSE RefreshAll
    /\ result' = Returned("assign_goal_health_status", goal, health)
    /\ UNCHANGED <<store, state, goals, now, reports>>

Call_assign_goal_health_status(i) ==
    health_status_returned(goals[i], assign_goal_health_status(goals[i], state, now))

prediction_returned(goal, prediction) ==
    /\ IF prediction.fault # "none" THEN UNCHANGED Caches ELSE RefreshSignals
    /\ result' = Returned("predict_goal_completion", goal, prediction)
    /\ UNCHANGED <<store, state, goals, now, reports>>

Call_predict_goal_completion(i) ==
    prediction_returned(goals[i], predict_goal_completion(goals[i], state, now))

(* estimate_goal_delay reaches evaluate_goal_feasibility, and with it the  *)
(* income and expense getters, only when the prediction is late.           *)
delay_returned(goal, prediction, delay) ==
    /\ IF prediction.fault # "none" THEN UNCHANGED Caches
       ELSE IF IsLate(goal, prediction) THEN RefreshAll
       ELSE RefreshSignals
    /\ result' = Returned("estimate_goal_delay", goal, delay)
    /\ UNCHANGED <<store, state, goals, now, reports>>

Call_estimate_goal_delay(i) ==
    delay_returned(goals[i], predict_goal_completion(goals[i], state, now),
                   estimate_goal_delay(goals[i], state, now))

(* Per-goal analysis: an engine holding one loaded goal and one set of     *)
(* loaded signals.                                                         *)
GoalInit ==
    /\ now = StartDay
    /\ store = EmptyState
    /\ \E g \in SingleGoals \cup SlowGoals : state \in Signals(<<g>>)
    /\ goals = get_savings_goals(state, now).goals
    /\ income_data = get_income(state)
    /\ expense_data = get_expenses(state)
    /\ overspending_data = get_overspending_data(state)
    /\ stress_data = get_stress_index(state)
    /\ result = NoResult
    /\ reports = <<>>

GoalNext ==
    \/ Call_estimate_monthly_savings_capacity
    \/ \E i \in 1..Len(goals) :
        \/ Call_calculate_goal_progress(i)
        \/ Call_evaluate_goal_feasibility(i)
        \/ Call_assign_goal_health_status(i)
        \/ Call_predict_goal_completion(i)
        \/ Call_estimate_goal_delay(i)

GoalSpec == GoalInit /\ [][GoalNext]_vars

-----------------------------------------------------------------------------
(* The engine over a stored application state.  The host application       *)
(* keeps the state in the store; the engine sees it only when it is put    *)
(* into engine.state.  result is the value of the last call for as long    *)
(* as the state and the clock are those the call saw.                      *)

Assign_state ==
    /\ state # store
    /\ state' = store
    /\ result' = NoResult
    /\ UNCHANGED <<store, goals, Caches, now, reports>>

Call_load_state ==
    /\ state' = load_state
    /\ result' = Returned("load_state", <<>>, load_state)
    /\ UNCHANGED <<store, goals, Caches, now, reports>>

goals_loaded(loaded) ==
    /\ goals' = loaded.goals
    /\ result' = Returned("get_savings_goals", <<>>,
                          [goals |-> loaded.returned, failed |-> loaded.failed])
    /\ UNCHANGED <<store, state, Caches, now, reports>>

Call_get_savings_goals == goals_loaded(get_savings_goals(state, now))

(* Without goals the method returns before the capacity estimate.          *)
conflicts_returned(conflicts) ==
    /\ IF goals = <<>> THEN UNCHANGED Caches ELSE RefreshAll
    /\ result' = Returned("detect_goal_conflicts", goals, conflicts)
    /\ UNCHANGED <<store, state, goals, now, reports>>

Call_detect_goal_conflicts == conflicts_returned(detect_goal_conflicts(goals, state, now))

(* The call with its freeze applied: the monthly_contribution of every     *)
(* goal it reports frozen is set to 0.                                     *)
Apply_stress_adjustments ==
    /\ stress_data' = get_stress_index(state)
    /\ result' = Returned("adjust_goals_using_stress", goals,
                          adjust_goals_using_stress(goals, state))
    /\ goals' = [i \in 1..Len(goals) |->
                    IF \E k \in 1..Len(adjust_goals_using_stress(goals, state).frozen_goals) :
                           adjust_goals_using_stress(goals, state).frozen_goals[k]
                           = goals[i].goal_id
                    THEN [goals[i] EXCEPT !.monthly_contribution = 0]
                    ELSE goals[i]]
    /\ UNCHANGED <<store, state, income_data, expense_data, overspending_data,
                   now, reports>>

Call_adjust_goals_using_stress ==
    /\ stress_data' = get_stress_index(state)
    /\ result' = Returned("adjust_goals_using_stress", goals,
                          adjust_goals_using_stress(goals, state))
    /\ UNCHANGED <<store, state, goals, income_data, expense_data,
                   overspending_data, now, reports>>

Call_integrate_overspending_impact ==
    /\ overspending_data' = get_overspending_data(state)
    /\ result' = Returned("integrate_overspending_impact", goals,
                          integrate_overspending_impact(goals, state, now))
    /\ UNCHANGED <<store, state, goals, income_data, expense_data,
                   stress_data, now, reports>>

insights_returned(insights) ==
    /\ IF goals = <<>> THEN UNCHANGED Caches ELSE RefreshAll
    /\ result' = Returned("generate_savings_insights", goals, insights)
    /\ UNCHANGED <<store, state, goals, now, reports>>

Call_generate_savings_insights ==
    insights_returned(generate_savings_insights(goals, state, now))

(* A month passes.                                                         *)
Tick ==
    /\ now < LastDay
    /\ now' = now + DaysPerMonth
    /\ result' = NoResult
    /\ UNCHANGED <<store, state, goals, Caches, reports>>

EngineInit ==
    /\ Construct
    /\ now = StartDay
    /\ store \in Snapshots

EngineNext ==
    \/ Assign_state
    \/ Call_load_state
    \/ Call_get_savings_goals
    \/ Call_estimate_monthly_savings_capacity
    \/ Call_detect_goal_conflicts
    \/ Call_adjust_goals_using_stress
    \/ Call_integrate_overspending_impact
    \/ Call_generate_savings_insights
    \/ Tick

EngineSpec == EngineInit /\ [][EngineNext]_vars

-----------------------------------------------------------------------------
(* The analysis operations on an engine whose state and goals are loaded.  *)

AnalysisInit ==
    /\ now = StartDay
    /\ store \in Snapshots
    /\ state = store
    /\ goals = get_savings_goals(state, now).goals
    /\ income_data = get_income(state)
    /\ expense_data = get_expenses(state)
    /\ overspending_data = get_overspending_data(state)
    /\ stress_data = get_stress_index(state)
    /\ result = NoResult
    /\ reports = <<>>

AnalysisNext ==
    \/ \E i \in 1..Len(goals) :
        \/ Call_calculate_goal_progress(i)
        \/ Call_evaluate_goal_feasibility(i)
        \/ Call_assign_goal_health_status(i)
        \/ Call_predict_goal_completion(i)
        \/ Call_estimate_goal_delay(i)
    \/ Call_detect_goal_conflicts
    \/ Call_adjust_goals_using_stress
    \/ Call_integrate_overspending_impact
    \/ Call_generate_savings_insights

AnalysisSpec == AnalysisInit /\ [][AnalysisNext]_vars

-----------------------------------------------------------------------------
(* Analysis passes over one goal while the host application replaces the   *)
(* signals in engine.state.  The goal records stay as they are, and result *)
(* keeps the status of the last pass across the change.                    *)

WithSignals(st, p) ==
    [st EXCEPT !.income = p.income, !.expenses = p.expenses,
               !.overspending = p.overspending, !.stress_index = p.stress_index]

Change_signals ==
    /\ \E p \in SignalProfiles :
          /\ WithSignals(state, p) # state
          /\ state' = WithSignals(state, p)
    /\ UNCHANGED <<store, goals, Caches, now, result, reports>>

HealthInit ==
    /\ now = StartDay
    /\ store = EmptyState
    /\ \E g \in PassGoals, p \in SignalProfiles :
          state = WithSignals([EmptyState EXCEPT !.savings_goals = <<g>>], p)
    /\ goals = get_savings_goals(state, now).goals
    /\ income_data = get_income(state)
    /\ expense_data = get_expenses(state)
    /\ overspending_data = get_overspending_data(state)
    /\ stress_data = get_stress_index(state)
    /\ result = NoResult
    /\ reports = <<>>

HealthNext ==
    \/ Change_signals
    \/ \E i \in 1..Len(goals) : Call_assign_goal_health_status(i)
    \/ Tick

HealthSpec == HealthInit /\ [][HealthNext]_vars

-----------------------------------------------------------------------------
(* The public entry points.                                                *)

LastTwo(rs) == IF Len(rs) > 2 THEN Tail(rs) ELSE rs

(* The report call reloads the state, the goals and every cache, analyses, *)
(* and reads the clock for report_generated; reports keeps the last two    *)
(* reports returned.                                                       *)
report_returned(r, generated) ==
    /\ state' = r.state
    /\ goals' = r.goals
    /\ income_data' = get_income(r.state)
    /\ expense_data' = get_expenses(r.state)
    /\ overspending_data' = get_overspending_data(r.state)
    /\ stress_data' = get_stress_index(r.state)
    /\ result' = Returned("get_savings_goals_report", <<>>, r.report)
    /\ reports' = LastTwo(Append(reports, r.report))
    /\ now' = generated
    /\ UNCHANGED store

Call_get_savings_goals_report ==
    \E generated \in ClockFrom(now) :
        report_returned(get_savings_goals_report(now, generated), generated)

Call_quick_goal_health_check(goal_id) ==
    /\ result' = Returned("quick_goal_health_check", goal_id,
                          quick_goal_health_check(goal_id, now))
    /\ UNCHANGED <<store, state, goals, Caches, now, reports>>

(* The ids a caller may ask for: those of the stored goals and one more.   *)
GoalIds == {GoalId(i) : i \in 1..(MaxGoals + 1)}

ReportInit ==
    /\ Construct
    /\ now = StartDay
    /\ store \in Snapshots

ReportNext ==
    \/ Assign_state
    \/ Call_get_savings_goals
    \/ Call_get_savings_goals_report
    \/ \E goal_id \in GoalIds : Call_quick_goal_health_check(goal_id)
    \/ Tick

ReportSpec == ReportInit /\ [][ReportNext]_vars

-----------------------------------------------------------------------------
(* PROPERTIES                                                              *)

(* A goal whose dates datetime.fromisoformat accepts.                      *)
WellDated(goal) == goal.created_date.kind = "date" /\ goal.target_date.kind # "bad"

AllWellDated(gs) == \A i \in 1..Len(gs) : WellDated(gs[i])

(* No savings capacity: the maximum band, and so every band, is 0.         *)
ZeroCapacity(st) == RZero(estimate_monthly_savings_capacity(st).maximum)

RequiredOf(goal, t) == required_monthly(goal, calculate_goal_progress(goal, t))

(* C1: with zero savings capacity evaluate_goal_feasibility never raises:  *)
(* for every goal, a deadline under 3 months away and a positive remaining *)
(* amount included, it returns a result whose capacity_utilization is 0.   *)
C1_ReturnsAtZeroCapacity ==
    (/\ result.op = "evaluate_goal_feasibility"
     /\ WellDated(result.goal)
     /\ ZeroCapacity(state))
    => (/\ result.value.fault = "none"
        /\ RZero(result.value.capacity_utilization))

(* C2: for a non-empty goal set whose total monthly_contribution exceeds   *)
(* the maximum band, detect_goal_conflicts returns normally and the list   *)
(* holds a capacity_overload conflict of severity high naming every goal.  *)
C2_OverloadIsReported ==
    (/\ result.op = "detect_goal_conflicts"
     /\ result.goal # <<>>
     /\ AllWellDated(result.goal)
     /\ RGt(R(SumSeq(Contributions(result.goal))),
            estimate_monthly_savings_capacity(state).maximum))
    => (/\ result.value.fault = "none"
        /\ \E i \in 1..Len(result.value.conflicts) :
               /\ result.value.conflicts[i].type = "capacity_overload"
               /\ result.value.conflicts[i].severity = "high"
               /\ result.value.conflicts[i].affected_goals = FlatIds(Ids(result.goal)))

(* C3: whenever the required_monthly that evaluate_goal_feasibility        *)
(* computes is above the maximum band, the result has is_feasible = False. *)
C3_AboveMaximumIsInfeasible ==
    (/\ result.op = "evaluate_goal_feasibility"
     /\ result.value.fault = "none"
     /\ \/ RGt(RequiredOf(result.goal, now),
               estimate_monthly_savings_capacity(state).maximum)
        \/ RGt(result.value.required_monthly,
               estimate_monthly_savings_capacity(state).maximum))
    => ~result.value.is_feasible

(* The requirement decides alone: the deadline check did not fire.         *)
C3_Witness ==
    /\ result.op = "evaluate_goal_feasibility"
    /\ result.value.fault = "none"
    /\ RGt(RequiredOf(result.goal, now), estimate_monthly_savings_capacity(state).maximum)
    /\ ~result.value.is_feasible
    /\ \A i \in 1..Len(result.value.reasons) :
           result.value.reasons[i] # "insufficient_time"

(* C4: for every income, expenses, overspending and stress signal,         *)
(* estimate_monthly_savings_capacity returns the four bands, each >= 0,    *)
(* and the stress_adjusted and overspending_impact flags.                  *)
C4_BandsAreNonNegative ==
    result.op = "estimate_monthly_savings_capacity"
    => (/\ {"conservative", "moderate", "aggressive", "maximum",
            "stress_adjusted", "overspending_impact"} \subseteq DOMAIN result.value
        /\ RGe(result.value.conservative, R(0))
        /\ RGe(result.value.moderate, R(0))
        /\ RGe(result.value.aggressive, R(0))
        /\ RGe(result.value.maximum, R(0))
        /\ result.value.stress_adjusted \in BOOLEAN
        /\ result.value.overspending_impact \in BOOLEAN)

(* Expenses above income, or overspending beyond the surplus.              *)
C4_Witness ==
    /\ result.op = "estimate_monthly_savings_capacity"
    /\ RLt(adjusted_base(state), R(0))
    /\ RZero(result.value.maximum)
    /\ result.value.overspending_impact

(* C6: with target_amount > 0 fixed, the completion_percentage of          *)
(* calculate_goal_progress does not decrease as current_amount grows, and  *)
(* never exceeds 100: a current_amount above the target reports 100.       *)
C6_CompletionIsMonotoneAndCapped ==
    (/\ result.op = "calculate_goal_progress"
     /\ result.value.fault = "none"
     /\ result.goal.target_amount > 0)
    => (/\ RLe(result.value.completion_percentage, R(100))
        /\ result.goal.current_amount > result.goal.target_amount
           => result.value.completion_percentage = R(100)
        /\ \A more \in Amounts :
               more >= result.goal.current_amount
               => RLe(result.value.completion_percentage,
                      calculate_goal_progress(
                          [result.goal EXCEPT !.current_amount = more],
                          now).completion_percentage))

C6_Witness ==
    /\ result.op = "calculate_goal_progress"
    /\ result.value.fault = "none"
    /\ result.goal.target_amount > 0
    /\ result.goal.current_amount > result.goal.target_amount
    /\ result.value.completion_percentage = R(100)

(* The report a pass returned, whatever it holds besides.                  *)
Generated(r) == r.fault = "none"

CoercedFloat(raw) == IF raw.k = "num" THEN raw.v ELSE 0

C7_OneGoalPerRecord ==
    result.op = "get_savings_goals"
    => (/\ ~result.value.failed
        /\ Len(result.value.goals) = Len(state.savings_goals)
        /\ goals = result.value.goals
        /\ \A i \in 1..Len(state.savings_goals) :
               /\ goals[i].goal_id = state.savings_goals[i].goal_id
               /\ goals[i].target_amount =
                      CoercedFloat(state.savings_goals[i].target_amount)
               /\ goals[i].current_amount =
                      CoercedFloat(state.savings_goals[i].current_amount)
               /\ goals[i].monthly_contribution =
                      CoercedFloat(state.savings_goals[i].monthly_contribution)
               /\ state.savings_goals[i].priority = MissingStr
                  => goals[i].priority = "medium"
               /\ state.savings_goals[i].type = MissingStr
                  => goals[i].goal_type = "custom")

(* The ids of the goals the store holds in loadable form.                  *)
StoredIds ==
    IF \A i \in 1..Len(store.savings_goals) : RecordParses(store.savings_goals[i])
    THEN {store.savings_goals[i].goal_id : i \in 1..Len(store.savings_goals)}
    ELSE {}

StoredGoal(goal_id) ==
    store.savings_goals[CHOOSE i \in 1..Len(store.savings_goals) :
                            store.savings_goals[i].goal_id = goal_id]

(* C8: quick_goal_health_check returns the not-found record for an id that *)
(* is not among the goals, and the goal's health record for an id the goal *)
(* store holds.                                                            *)
C8_FoundOrNotFound ==
    result.op = "quick_goal_health_check"
    => IF result.goal \in StoredIds /\ WellDated(StoredGoal(result.goal))
       THEN /\ result.value.fault = "none"
            /\ "health_status" \in DOMAIN result.value
            /\ result.value.goal_id = result.goal
       ELSE result.value = NotFound

(* C9: for a goal with target_amount = 0, calculate_goal_progress reports  *)
(* completion_percentage 0 without a division error and                    *)
(* evaluate_goal_feasibility returns normally with the goal marked for     *)
(* review: a reason or a recommendation is present in the result.          *)
C9_ZeroTargetIsFlagged ==
    (/\ result.op \in {"calculate_goal_progress", "evaluate_goal_feasibility"}
     /\ WellDated(result.goal)
     /\ result.goal.target_amount = 0)
    => (/\ result.value.fault = "none"
        /\ result.op = "calculate_goal_progress"
           => result.value.completion_percentage = R(0)
        /\ result.op = "evaluate_goal_feasibility"
           => \/ result.value.reasons # <<>>
              \/ result.value.recommendations # <<>>)

(* C10: for a goal with current_amount = 0, predict_goal_completion        *)
(* returns months_to_completion 999, no predicted_completion_date and a    *)
(* success_probability of at most 0.1, under every signal, with or without *)
(* a target_date.                                                          *)
C10_ZeroRateIsUnresolvable ==
    (/\ result.op = "predict_goal_completion"
     /\ result.value.fault = "none"
     /\ result.goal.current_amount = 0)
    => (/\ result.value.months_to_completion = R(999)
        /\ ~result.value.predicted_completion_date.some
        /\ RLe(result.value.success_probability, <<1, 10>>))

(* A dated goal three or more months old with nothing saved, under stress. *)
C10_Witness ==
    /\ result.op = "predict_goal_completion"
    /\ result.value.fault = "none"
    /\ result.goal.current_amount = 0
    /\ Truthy(result.goal.target_date)
    /\ result.value.confidence = "high"
    /\ state.stress_index.is_stressed
    /\ result.value.months_to_completion = R(999)

(* The prediction of the goal has no predicted date.                       *)
Unresolvable(prediction) ==
    /\ prediction.fault = "none"
    /\ ~prediction.predicted_completion_date.some

IsSentinelDelay(delay) ==
    /\ delay.has_delay
    /\ delay.delay_months = R(999)
    /\ delay.risk_level = "critical"

(* C11 as stated: for every goal whose prediction is unresolvable,         *)
(* estimate_goal_delay reports has_delay, delay_months = 999 and           *)
(* risk_level critical.                                                    *)
C11_UnresolvableIsCritical ==
    (/\ result.op = "estimate_goal_delay"
     /\ result.value.fault = "none"
     /\ Unresolvable(predict_goal_completion(result.goal, state, now)))
    => IsSentinelDelay(result.value)

(* C11 amended: for every goal with a target_date whose prediction is      *)
(* unresolvable, estimate_goal_delay reports has_delay, delay_months = 999 *)
(* and risk_level critical; a goal without target_date gets the default    *)
(* record (no delay, risk_level low).                                      *)
C11_DatedUnresolvableIsCritical ==
    (/\ result.op = "estimate_goal_delay"
     /\ result.value.fault = "none"
     /\ Unresolvable(predict_goal_completion(result.goal, state, now)))
    => IF Truthy(result.goal.target_date)
       THEN IsSentinelDelay(result.value)
       ELSE /\ ~result.value.has_delay
            /\ result.value.delay_months = R(0)
            /\ result.value.risk_level = "low"

C11_Witness ==
    /\ result.op = "estimate_goal_delay"
    /\ result.value.fault = "none"
    /\ Truthy(result.goal.target_date)
    /\ result.goal.current_amount = 0
    /\ result.goal.target_amount > 0
    /\ IsSentinelDelay(result.value)

(* The four bands of a capacity record, in the order conservative,         *)
(* moderate, aggressive, maximum.                                          *)
Bands(capacity) ==
    <<capacity.conservative, capacity.moderate, capacity.aggressive, capacity.maximum>>

(* max(0, f * base * m), to 2 decimals, for f = 0.2, 0.4, 0.7, 1.0.          *)
BandsOf(base, m) ==
    <<Round2(RMax(R(0), RMul(RMul(<<1, 5>>, base), m))),
      Round2(RMax(R(0), RMul(RMul(<<2, 5>>, base), m))),
      Round2(RMax(R(0), RMul(RMul(<<7, 10>>, base), m))),
      Round2(RMax(R(0), RMul(RMul(R(1), base), m)))>>

(* income - expenses, less half the overspending_amount when active.       *)
ClaimedBase(st) ==
    IF st.overspending.is_overspending
    THEN RSub(R(st.income - st.expenses), Norm(st.overspending.overspending_amount, 2))
    ELSE R(st.income - st.expenses)

CalmScenario ==
    [income |-> 50000, expenses |-> 45000, savings_goals |-> <<>>,
     overspending |-> NoOverspending, stress_index |-> NoStress]

(* C12 as stated: for every signal combination each band of               *)
(* estimate_monthly_savings_capacity equals max(0, f * base * m) with      *)
(* m = max(0.6, 1.0 - (stress_score/100) * 0.4) computed from the          *)
(* stress_score alone.                                                     *)
C12_BandsFollowScore ==
    result.op = "estimate_monthly_savings_capacity"
    => Bands(result.value)
       = BandsOf(ClaimedBase(state), score_multiplier(state.stress_index))

(* C12 amended: each band equals max(0, f * base * m) rounded to 2         *)
(* decimals, f = 0.2, 0.4, 0.7, 1.0, base = income - expenses less half    *)
(* the overspending_amount when overspending is active, and                *)
(* m = max(0.6, 1.0 - (stress_score/100) * 0.4) when is_stressed is set,   *)
(* m = 1.0 otherwise; income 50000, expenses 45000, no stress and no       *)
(* overspending give 1000, 2000, 3500, 5000.                               *)
C12_BandsFollowStressFlag ==
    /\ result.op = "estimate_monthly_savings_capacity"
       => Bands(result.value)
          = BandsOf(ClaimedBase(state),
                    IF state.stress_index.is_stressed
                    THEN score_multiplier(state.stress_index) ELSE R(1))
    /\ Bands(estimate_monthly_savings_capacity(CalmScenario))
       = <<R(1000), R(2000), R(3500), R(5000)>>

(* A stressed, overspending household with a positive base.                *)
C12_Witness ==
    /\ result.op = "estimate_monthly_savings_capacity"
    /\ state.stress_index.is_stressed
    /\ state.overspending.is_overspending
    /\ RGt(ClaimedBase(state), R(0))
    /\ RLt(result.value.maximum, ClaimedBase(state))
    /\ RGt(result.value.conservative, R(0))

(* A goal of 120000 with 60000 saved, created 6 months before StartDay and *)
(* due 12 months after its creation.                                       *)
HalfwayGoal ==
    [goal_id |-> "halfway", name |-> "Unnamed Goal", goal_type |-> "custom",
     target_amount |-> 120000, current_amount |-> 60000,
     target_date |-> MonthStart(StartMonth + 6), priority |-> "medium",
     monthly_contribution |-> 0,
     created_date |-> MonthStart(StartMonth - 6), last_updated |-> Date(StartDay)]

(* completion_percentage - expected_progress of the goal of a result, from *)
(* its amounts and its months_elapsed.                                     *)
VarianceOf(goal, elapsed) ==
    RSub(IF goal.target_amount > 0
         THEN RMin(R(100), Norm(goal.current_amount * 100, goal.target_amount))
         ELSE R(0),
         IF Truthy(goal.target_date)
         THEN Norm(elapsed * 100,
                   Max(1, MonthIndex(goal.target_date.t) - MonthIndex(goal.created_date.t)))
         ELSE R(0))

(* C13: calculate_goal_progress sets on_track exactly when variance >= -10 *)
(* for a goal with a target_date, and exactly when current_amount >= 0.9 * *)
(* monthly_contribution * months_elapsed for a goal without one, with      *)
(* variance = completion_percentage - expected_progress and                *)
(* expected_progress the time-elapsed percentage (0 without a deadline);   *)
(* the goal of 120000 with 60000 saved, created 6 months ago and due 12    *)
(* months after creation yields completion 50, months_elapsed 6, time      *)
(* elapsed 50, variance 0, on_track true.                                  *)
C13_OnTrackRule ==
    /\ (result.op = "calculate_goal_progress" /\ result.value.fault = "none")
       => (/\ result.value.expected_progress = result.value.time_elapsed_percentage
           /\ ~Truthy(result.goal.target_date) => RZero(result.value.expected_progress)
           /\ result.value.variance
              = Round2(VarianceOf(result.goal, result.value.months_elapsed))
           /\ result.value.on_track
              = IF Truthy(result.goal.target_date)
                THEN RGe(VarianceOf(result.goal, result.value.months_elapsed), R(-10))
                ELSE RGe(R(result.goal.current_amount * 10),
                         R(9 * result.goal.monthly_contribution
                             * result.value.months_elapsed)))
    /\ calculate_goal_progress(HalfwayGoal, StartDay)
       = [fault |-> "none", goal_id |-> "halfway",
          completion_percentage |-> R(50), time_elapsed_percentage |-> R(50),
          expected_progress |-> R(50), actual_progress |-> R(50),
          variance |-> R(0), on_track |-> TRUE,
          months_elapsed |-> 6, months_remaining |-> Some(6)]

(* The scenario in the units of the inputs: half saved, half the time gone. *)
C13_Witness ==
    /\ result.op = "calculate_goal_progress"
    /\ result.value.fault = "none"
    /\ result.goal.target_amount = 2 * result.goal.current_amount
    /\ result.value.months_elapsed = 6
    /\ result.value.months_remaining = Some(6)
    /\ result.value.completion_percentage = R(50)
    /\ result.value.time_elapsed_percentage = R(50)
    /\ RZero(result.value.variance)
    /\ result.value.on_track

(* The conflicts of a returned list that are priority conflicts.           *)
PriorityConflicts(conflicts) ==
    LET IsPriority(c) == c.type = "priority_conflict"
    IN  SelectSeq(conflicts, IsPriority)

(* At least two high priority goals whose combined monthly_contribution    *)
(* exceeds the aggressive band.                                            *)
HighPriorityClash(gs, st) ==
    /\ Len(SelectSeq(gs, IsHigh)) >= 2
    /\ RGt(R(SumSeq(Contributions(SelectSeq(gs, IsHigh)))),
           estimate_monthly_savings_capacity(st).aggressive)

(* C14: whenever the goal set holds at least two high priority goals whose *)
(* combined monthly_contribution exceeds the aggressive band,              *)
(* detect_goal_conflicts returns a priority conflict of severity medium    *)
(* whose affected_goals are exactly the high priority goal ids; otherwise  *)
(* it returns no such conflict.                                            *)
C14_PriorityClashIsReported ==
    (/\ result.op = "detect_goal_conflicts"
     /\ AllWellDated(result.goal))
    => IF HighPriorityClash(result.goal, state)
       THEN /\ result.value.fault = "none"
            /\ Len(PriorityConflicts(result.value.conflicts)) = 1
            /\ PriorityConflicts(result.value.conflicts)[1].severity = "medium"
            /\ PriorityConflicts(result.value.conflicts)[1].affected_goals
               = FlatIds(Ids(SelectSeq(result.goal, IsHigh)))
       ELSE result.value.fault = "none"
            => PriorityConflicts(result.value.conflicts) = <<>>

(* A pass of assign_goal_health_status that returned a status.             *)
HealthPass(r) == r.op = "assign_goal_health_status" /\ r.value.fault = "none"

(* min(100, current / target * 100) >= 100, with 0 for a zero target.      *)
FullyFunded(goal) ==
    goal.target_amount > 0 /\ goal.current_amount >= goal.target_amount

(* C15: assign_goal_health_status returns completed if and only if the     *)
(* completion_percentage of the goal is >= 100, whatever the stress, the   *)
(* overspending, the capacity, the feasibility and the deadline; over      *)
(* passes between which only the signals change, a goal with               *)
(* current_amount >= target_amount > 0 once reported completed is reported *)
(* completed by the next pass, hence by every later one.                   *)
C15_CompletedIsAbsorbing ==
    [][/\ HealthPass(result')
          => (result'.value.health = "completed" <=> FullyFunded(result'.goal))
       /\ (/\ HealthPass(result) /\ result.value.health = "completed"
           /\ HealthPass(result') /\ FullyFunded(result'.goal))
          => result'.value.health = "completed"]_vars

(* A completed status for an undated goal whose monthly_contribution is    *)
(* beyond the capacity the pass saw, after the signals it saw were         *)
(* replaced.                                                               *)
C15_Witness ==
    /\ HealthPass(result)
    /\ result.value.health = "completed"
    /\ ~Truthy(result.goal.target_date)
    /\ RGt(R(result.goal.monthly_contribution),
           estimate_monthly_savings_capacity(state).maximum)
    /\ overspending_data.is_overspending
    /\ stress_data.is_stressed
    /\ stress_data # get_stress_index(state)

(* C16: for every goal, the time_elapsed_percentage calculate_goal_progress *)
(* returns lies in [0, 100], also when the clock is past the target_date,  *)
(* and is 0 when the goal has no target_date; months_elapsed is >= 1 and   *)
(* months_remaining, when present, is >= 0.                                *)
C16_TimeElapsedIsAPercentage ==
    (/\ result.op = "calculate_goal_progress"
     /\ result.value.fault = "none")
    => (/\ RGe(result.value.time_elapsed_percentage, R(0))
        /\ RLe(result.value.time_elapsed_percentage, R(100))
        /\ ~Truthy(result.goal.target_date)
           => RZero(result.value.time_elapsed_percentage)
        /\ result.value.months_elapsed >= 1
        /\ result.value.months_remaining.some
           => result.value.months_remaining.v >= 0)

(* The penalties of the checks that fire for a goal, from the requirement  *)
(* the call computes, the capacity it estimates and the progress it reads. *)
PenaltiesOf(goal, st, required, capacity, progress) ==
    (IF RGt(required, capacity.maximum) THEN 50
     ELSE IF RGt(required, capacity.aggressive) THEN 20
     ELSE IF RGt(required, capacity.moderate) THEN 10
     ELSE 0)
    + (IF st.stress_index.is_stressed THEN 15 ELSE 0)
    + (IF st.overspending.is_overspending THEN 15 ELSE 0)
    + (IF RLt(progress.variance, R(-20)) THEN 20 ELSE 0)
    + (IF /\ progress.months_remaining.some
          /\ progress.months_remaining.v < 3
          /\ RGt(R(goal.target_amount - goal.current_amount),
                 RMul(R(3), capacity.maximum))
       THEN 30 ELSE 0)

SummaryBand(score) ==
    IF score >= 80 THEN "Highly feasible"
    ELSE IF score >= 60 THEN "Feasible with discipline"
    ELSE IF score >= 40 THEN "Challenging but possible"
    ELSE "Unrealistic under current conditions"

ScoreFollows(score, penalties) ==
    /\ score \in 0..100
    /\ score = Max(0, 100 - penalties)

(* C17: for every goal and signal combination the feasibility_score of     *)
(* evaluate_goal_feasibility lies in [0, 100] and equals                   *)
(* max(0, 100 - penalties), the penalties being those of the checks that   *)
(* fired (50 / 20 / 10 for required_monthly above maximum / aggressive /   *)
(* moderate, 15 for stress, 15 for overspending, 20 for variance < -20, 30 *)
(* for months_remaining < 3 with remaining > 3 * maximum); the summary is  *)
(* highly feasible from 80, feasible with discipline from 60, challenging  *)
(* from 40, unrealistic below.                                             *)
C17_ScoreIsPenalised ==
    (/\ result.op = "evaluate_goal_feasibility"
     /\ result.value.fault = "none")
    => (/\ ScoreFollows(result.value.feasibility_score,
                        PenaltiesOf(result.goal, state, RequiredOf(result.goal, now),
                                    estimate_monthly_savings_capacity(state),
                                    calculate_goal_progress(result.goal, now)))
        /\ result.value.summary = SummaryBand(result.value.feasibility_score))

(* All five checks fired: 130 points of penalties, score 0.                *)
C17_Witness ==
    /\ result.op = "evaluate_goal_feasibility"
    /\ result.value.fault = "none"
    /\ Len(result.value.reasons) = 5
    /\ result.value.feasibility_score = 0
    /\ result.value.summary = "Unrealistic under current conditions"

(* remaining / months_remaining with time left, the remaining amount when  *)
(* due now, the monthly_contribution without a target_date.                *)
StatedRequirement(goal, progress) ==
    IF ~Truthy(goal.target_date) THEN R(goal.monthly_contribution)
    ELSE IF progress.months_remaining.v > 0
         THEN Norm(goal.target_amount - goal.current_amount, progress.months_remaining.v)
    ELSE R(goal.target_amount - goal.current_amount)

(* C18: evaluate_goal_feasibility computes required_monthly as             *)
(* remaining / months_remaining for a goal with a target_date and          *)
(* months_remaining > 0, as the full remaining amount for a goal due now   *)
(* (months_remaining = 0), and as the monthly_contribution only for a goal *)
(* without target_date.                                                    *)
C18_RequirementByDeadline ==
    (/\ result.op = "evaluate_goal_feasibility"
     /\ result.value.fault = "none")
    => result.value.required_monthly
       = Round2(StatedRequirement(result.goal, calculate_goal_progress(result.goal, now)))

(* C19: the base_capacity field of the capacity estimate equals            *)
(* monthly_income - monthly_expenses for every signal combination, also    *)
(* when overspending is active.                                            *)
C19_BaseIsIncomeLessExpenses ==
    result.op = "estimate_monthly_savings_capacity"
    => result.value.base_capacity = R(state.income - state.expenses)

(* The record has the five fields, and its affected_goals are a flat list  *)
(* of ids of the analysed goals.                                           *)
WellFormedConflict(c, ids) ==
    /\ {"type", "severity", "description", "recommendation", "affected_goals"}
       \subseteq DOMAIN c
    /\ c.type \in {"capacity_overload", "priority_conflict", "temporal_conflict",
                   "lifestyle_conflict"}
    /\ c.affected_goals.flat
    /\ \A i \in 1..Len(c.affected_goals.ids) :
           \E j \in 1..Len(ids) : c.affected_goals.ids[i] = ids[j]

(* C20: every conflict record detect_goal_conflicts returns, of every      *)
(* type, carries type, severity, description, one recommendation, and      *)
(* affected_goals as a flat list of ids of goals of the analysed set.      *)
C20_ConflictsAreUniform ==
    (/\ result.op = "detect_goal_conflicts"
     /\ result.value.fault = "none")
    => \A i \in 1..Len(result.value.conflicts) :
           WellFormedConflict(result.value.conflicts[i], Ids(result.goal))

(* A returned delay record for a goal predicted to complete after its      *)
(* target_date.                                                            *)
LateDelay(r) ==
    /\ r.op = "estimate_goal_delay"
    /\ r.value.fault = "none"
    /\ IsLate(r.goal, predict_goal_completion(r.goal, state, now))

(* (predicted_date - target_date).days / 30 of a late goal.                *)
LatenessOf(goal, prediction) ==
    Norm(RFloor(RSub(prediction.predicted_completion_date.v, R(goal.target_date.t))), 30)

Member(x, xs) == \E i \in 1..Len(xs) : xs[i] = x

(* Each reason is listed exactly when its signal is active.                *)
ReasonsFollowSignals(reasons, st, progress, feasibility) ==
    /\ Member("behind_schedule", reasons) <=> RLt(progress.variance, R(-15))
    /\ Member("overspending", reasons) <=> st.overspending.is_overspending
    /\ Member("stress", reasons) <=> st.stress_index.is_stressed
    /\ Member("limited_capacity", reasons)
       <=> RGt(feasibility.capacity_utilization, R(80))
    /\ \A i \in 1..Len(reasons) :
           reasons[i] \in {"behind_schedule", "overspending", "stress", "limited_capacity"}

StatedBucket(lateness) ==
    IF RLt(lateness, R(3)) THEN "low"
    ELSE IF RLe(lateness, R(6)) THEN "medium"
    ELSE "high"

AmendedBucket(lateness) ==
    IF RLe(lateness, R(3)) THEN "low"
    ELSE IF RLe(lateness, R(6)) THEN "medium"
    ELSE "high"

(* C21 as stated: for a goal predicted to complete after its target_date,  *)
(* estimate_goal_delay gives risk_level low for a delay under 3 months,    *)
(* medium from 3 to 6 months and high over 6 months, and lists a reason    *)
(* only if its signal is active.                                           *)
C21_RiskBuckets ==
    LateDelay(result)
    => (/\ result.value.has_delay
        /\ result.value.risk_level
           = StatedBucket(LatenessOf(result.goal,
                                     predict_goal_completion(result.goal, state, now)))
        /\ ReasonsFollowSignals(result.value.delay_reasons, state,
                                calculate_goal_progress(result.goal, now),
                                evaluate_goal_feasibility(result.goal, state, now)))

(* C21 amended: risk_level is low for a delay of at most 3 months, medium  *)
(* for a delay over 3 and at most 6 months, high over 6 months, the delay  *)
(* being (predicted - target).days / 30 before rounding; a reason is       *)
(* listed exactly when its signal is active.                               *)
C21_RiskBucketsOverThreshold ==
    LateDelay(result)
    => (/\ result.value.has_delay
        /\ result.value.delay_months
           = Round1(LatenessOf(result.goal,
                               predict_goal_completion(result.goal, state, now)))
        /\ result.value.risk_level
           = AmendedBucket(LatenessOf(result.goal,
                                      predict_goal_completion(result.goal, state, now)))
        /\ ReasonsFollowSignals(result.value.delay_reasons, state,
                                calculate_goal_progress(result.goal, now),
                                evaluate_goal_feasibility(result.goal, state, now)))

(* A delay of exactly 3 months.                                            *)
C21_Witness ==
    /\ LateDelay(result)
    /\ result.value.delay_months = R(3)
    /\ result.value.risk_level = "low"

(* The returned list holds an insight of the type.                         *)
HasInsight(insights, type) == \E i \in 1..Len(insights) : insights[i].type = type

(* The insights of the capacity step against the total contribution and    *)
(* the maximum band.                                                       *)
CapacityInsightsFollow(insights, total, maximum) ==
    /\ RGt(total, RMul(<<9, 10>>, maximum)) => HasInsight(insights, "overutilized_capacity")
    /\ HasInsight(insights, "underutilized_capacity")
       => RLt(total, RMul(<<1, 2>>, maximum))

(* C22: for every non-empty goal set generate_savings_insights emits       *)
(* overutilized_capacity whenever the total monthly_contribution exceeds   *)
(* 90% of the maximum band, and underutilized_capacity only when the total *)
(* is below 50% of it, also when the maximum band is 0.                    *)
C22_CapacityInsights ==
    (/\ result.op = "generate_savings_insights"
     /\ result.goal # <<>>
     /\ result.value.fault = "none")
    => CapacityInsightsFollow(result.value.insights,
                              R(SumSeq(Contributions(result.goal))),
                              estimate_monthly_savings_capacity(state).maximum)

(* critical > high > medium > low                                          *)
PriorityRank(priority) ==
    CASE priority = "critical" -> 3
      [] priority = "high" -> 2
      [] priority = "medium" -> 1
      [] OTHER -> 0

(* C23: every insight generate_savings_insights returns carries type,      *)
(* priority, title, message and action, and no insight of lower priority   *)
(* precedes one of higher priority (critical > high > medium > low).       *)
C23_InsightsAreRanked ==
    (/\ result.op = "generate_savings_insights"
     /\ result.value.fault = "none")
    => (/\ \A i \in 1..Len(result.value.insights) :
               /\ {"type", "priority", "title", "message", "action"}
                  \subseteq DOMAIN result.value.insights[i]
               /\ result.value.insights[i].priority
                  \in {"critical", "high", "medium", "low"}
        /\ \A i, j \in 1..Len(result.value.insights) :
               i < j => PriorityRank(result.value.insights[i].priority)
                        >= PriorityRank(result.value.insights[j].priority))

(* C24: a goal whose created_date or target_date is unparseable never      *)
(* makes an analysis operation raise: calculate_goal_progress and          *)
(* predict_goal_completion return a result for it.                         *)
C24_BadDatesAreResolved ==
    (/\ result.op \in {"calculate_goal_progress", "predict_goal_completion"}
     /\ ~WellDated(result.goal))
    => result.value.fault = "none"

AnalysisOps ==
    {"calculate_goal_progress", "evaluate_goal_feasibility", "detect_goal_conflicts",
     "assign_goal_health_status", "adjust_goals_using_stress",
     "integrate_overspending_impact", "predict_goal_completion",
     "estimate_goal_delay", "generate_savings_insights"}

(* C25: the analysis operations are read-only on goal data: across every   *)
(* call of calculate_goal_progress, evaluate_goal_feasibility,             *)
(* detect_goal_conflicts, assign_goal_health_status,                       *)
(* adjust_goals_using_stress, integrate_overspending_impact,               *)
(* predict_goal_completion, estimate_goal_delay and                        *)
(* generate_savings_insights, returning or raising, engine.goals and       *)
(* engine.state stay as they were.                                         *)
C25_AnalysesAreReadOnly ==
    [][result'.op \in AnalysisOps => goals' = goals /\ state' = state]_vars

(* A freeze of a low priority goal was recommended, and the goal still has *)
(* its monthly_contribution.                                               *)
C25_Witness ==
    /\ result.op = "adjust_goals_using_stress"
    /\ result.value.frozen_goals # <<>>
    /\ \E i \in 1..Len(goals) :
           /\ goals[i].goal_id = result.value.frozen_goals[1]
           /\ goals[i].monthly_contribution > 0
    /\ goals = get_savings_goals(state, now).goals

(* Each goal of the summary is in one health bucket.                       *)
SummaryAddsUp(summary) ==
    /\ DOMAIN summary.health_distribution = HealthNames
    /\ summary.health_distribution["on_track"] + summary.health_distribution["at_risk"]
       + summary.health_distribution["off_track"]
       + summary.health_distribution["unrealistic"]
       + summary.health_distribution["completed"] = summary.total_goals
    /\ summary.goals_on_track
       = summary.health_distribution["on_track"] + summary.health_distribution["completed"]
    /\ summary.goals_needing_attention
       = summary.health_distribution["at_risk"] + summary.health_distribution["off_track"]
         + summary.health_distribution["unrealistic"]
    /\ summary.goals_on_track + summary.goals_needing_attention = summary.total_goals

ReportAddsUp(report) == report.fault = "none" => SummaryAddsUp(report.summary)

(* C26: in every report get_savings_goals_report produces each goal is     *)
(* counted in exactly one health bucket: the five health_distribution      *)
(* counts sum to total_goals, and goals_on_track (on_track + completed)    *)
(* plus goals_needing_attention (at_risk + off_track + unrealistic) equals *)
(* total_goals.  The same holds for the report the analysis of lines       *)
(* 1005-1064 compiles from the stored goals.                               *)
C26_HealthBucketsAddUp ==
    result.op = "get_savings_goals_report"
    => (/\ ReportAddsUp(result.value)
        /\ ReportAddsUp(report_of(store, now, now).report))

(* A report was produced while the store holds a completed goal and one    *)
(* that needs attention.                                                   *)
C26_Witness ==
    /\ result.op = "get_savings_goals_report"
    /\ result.value.fault = "none"
    /\ report_of(store, now, now).report.fault = "none"
    /\ report_of(store, now, now).report.summary.total_goals = 2
    /\ report_of(store, now, now).report.summary.health_distribution["completed"] = 1
    /\ report_of(store, now, now).report.summary.goals_needing_attention = 1

(* C27: get_savings_goals_report starts with load_state, which replaces    *)
(* engine.state by the empty structure; whatever was assigned to           *)
(* engine.state or engine.goals and whatever was called before, the report *)
(* has total_goals = 0, an empty goals map and conflicts list, all         *)
(* capacity bands 0 and exactly one insight, of type no_goals, and         *)
(* engine.goals is empty afterwards.                                       *)
C27_ReportIsOfTheEmptyState ==
    result.op = "get_savings_goals_report"
    => (/\ result.value.fault = "none"
        /\ result.value.summary.total_goals = 0
        /\ result.value.goals = <<>>
        /\ result.value.conflicts = <<>>
        /\ Bands(result.value.savings_capacity) = <<R(0), R(0), R(0), R(0)>>
        /\ Len(result.value.insights) = 1
        /\ result.value.insights[1].type = "no_goals"
        /\ goals = <<>>
        /\ state = EmptyState)

(* The report of an engine whose store holds goals and a surplus.          *)
C27_Witness ==
    /\ result.op = "get_savings_goals_report"
    /\ Len(store.savings_goals) = 2
    /\ store.income > store.expenses
    /\ Len(reports) = 2
    /\ result.value.summary.total_goals = 0

(* C28: the horizon predict_goal_completion reports is bounded by the     *)
(* sentinel: for every goal, also one whose historical rate is positive    *)
(* but small against the remaining amount, the call returns a prediction   *)
(* and its months_to_completion does not exceed 999.                       *)
C28_HorizonIsBounded ==
    (/\ result.op = "predict_goal_completion"
     /\ result.goal.current_amount > 0
     /\ result.goal.target_amount > 999 * result.goal.current_amount)
    => (/\ result.value.fault = "none"
        /\ RLe(result.value.months_to_completion, R(999)))

(* The two ways the horizon escapes the sentinel.                          *)
C28_HorizonBeyondSentinel ==
    /\ result.op = "predict_goal_completion"
    /\ result.value.fault = "none"
    /\ RGt(result.value.months_to_completion, R(999))

C28_DateOutOfRange ==
    /\ result.op = "predict_goal_completion"
    /\ result.value.fault = "OverflowError"

(* C29: a goal without a target_date and with non-negative amounts is     *)
(* never assigned off_track: its expected progress is 0, so its variance   *)
(* equals its completion percentage, which is not negative, and            *)
(* assign_goal_health_status returns completed, unrealistic, on_track or   *)
(* at_risk for it, also when nothing was saved against the planned         *)
(* contributions.                                                          *)
Undated(goal) ==
    /\ ~Truthy(goal.target_date)
    /\ goal.target_amount >= 0
    /\ goal.current_amount >= 0
    /\ goal.monthly_contribution >= 0

VarianceIsCompletion(progress) ==
    /\ progress.expected_progress = R(0)
    /\ progress.variance = progress.completion_percentage
    /\ RGe(progress.variance, R(0))

C29_UndatedIsNeverOffTrack ==
    (HealthPass(result) /\ Undated(result.goal))
    => (/\ VarianceIsCompletion(calculate_goal_progress(result.goal, now))
        /\ result.value.health \in {"completed", "unrealistic", "on_track", "at_risk"})

(* Nothing saved in six months against a contribution of 3 a month.        *)
C29_Witness ==
    /\ HealthPass(result)
    /\ Undated(result.goal)
    /\ result.goal.target_amount > 0
    /\ result.goal.current_amount = 0
    /\ result.goal.monthly_contribution = 3
    /\ calculate_goal_progress(result.goal, now).months_elapsed = 6
    /\ ~calculate_goal_progress(result.goal, now).on_track
    /\ result.value.health = "at_risk"

(* C30: when get_savings_goals fails while converting a record the load   *)
(* is all-or-nothing: the value it returns and engine.goals agree, both    *)
(* hold no goals, so no later analysis runs on the records converted       *)
(* before the failing one.                                                 *)
C30_FailedLoadIsAllOrNothing ==
    (result.op = "get_savings_goals" /\ result.value.failed)
    => (/\ result.value.goals = <<>>
        /\ goals = result.value.goals)

(* A later analysis of the goals a failed load left behind.                *)
C30_AnalysisOfPartialLoad ==
    /\ result.op = "detect_goal_conflicts"
    /\ get_savings_goals(state, now).failed
    /\ result.goal # <<>>
    /\ result.goal = goals

=============================================================================
